---- MODULE Spec2Model ----
(***************************************************************************)
(* The push-to-talk voice pipeline of app/src-tauri/src/voice: the command *)
(* handlers (commands.rs), the VoiceProcessor with its keyboard monitor    *)
(* and transcription worker (processor.rs), the AudioRecorder              *)
(* (recorder.rs), the WhisperTranscriber (transcriber.rs) and the          *)
(* configuration store (config.rs).                                        *)
(*                                                                         *)
(* Durations are integers in milliseconds (the code's f32 seconds times    *)
(* 1000), sensitivity is in thousandths.  The sample buffer is a sequence  *)
(* of blocks, one per hardware callback; a block is the number of samples  *)
(* the callback delivered, BlockMs of audio at the device's rate.          *)
(***************************************************************************)
EXTENDS Integers, Sequences, FiniteSets, TLC

----------------------------------------------------------------------------
\* Bounds of the model.
MaxProcs == 2      \* successful VoiceProcessor::new calls
MaxMonitors == 2   \* VoiceProcessor::start calls (one monitor thread each)
MaxTicks == 2      \* clock ticks
MaxEvents == 4     \* physical key events
MaxBlocks == 1     \* hardware callbacks appended to one buffer
MaxPending == 1    \* key events waiting in one listener's inbox
TickMs == 500      \* one clock tick
BlockMs == 250     \* audio delivered by one hardware callback
MaxCalls == 2      \* transcribe calls on the engine taken alone
MaxSessions == 2   \* start_recording calls on the recorder taken alone
MaxDeliveries == 3 \* hardware callbacks on the recorder taken alone
BlockLen == 2      \* samples one of those callbacks delivers
MaxFrames == 16    \* frames of a short buffer given to stop_recording alone
LongBuffer == 4000 \* frames of the long buffer given to stop_recording alone

\* Program constants.
FloorMs == 500             \* processor.rs:202
TargetRate == 16000        \* recorder.rs:77, processor.rs:205, processor.rs:276
ShortAudio == 1600         \* transcriber.rs:27

None == 0
NoTime == -1

Procs == 1..MaxProcs
Mons == 1..MaxMonitors

\* Keys the user presses, and the audio input devices a recorder may open.
Keys == {"F2", "F3"}
Devices == {[sample_rate |-> 48000, channels |-> 1]}

----------------------------------------------------------------------------
\* config.rs: VoiceConfig

DefaultConfig ==
  [enabled |-> FALSE, hotkey |-> "F2", gpu_acceleration |-> FALSE,
   model_path |-> "", language |-> "auto", sensitivity |-> 600,
   min_duration |-> 100, max_duration |-> 30000, sample_rate |-> 16000,
   auto_gpu_detection |-> TRUE]

\* Paths at which a model file exists.
ExistingPaths == {"model.bin"}

BaseConfig == [DefaultConfig EXCEPT !.enabled = TRUE, !.model_path = "model.bin"]

\* The configurations the user interface submits to save_config.
InputConfigs ==
  { BaseConfig,
    [BaseConfig EXCEPT !.enabled = FALSE],
    [BaseConfig EXCEPT !.min_duration = 1000],
    [BaseConfig EXCEPT !.sensitivity = 1500] }

\* The text of a number in voice_config.json.  Digits(n) is the decimal
\* text of a natural number, Number its inverse.
Digit == <<"0", "1", "2", "3", "4", "5", "6", "7", "8", "9">>

RECURSIVE Digits(_)
Digits(n) ==
  IF n < 10 THEN <<Digit[n + 1]>>
  ELSE Digits(n \div 10) \o <<Digit[(n % 10) + 1]>>

RECURSIVE Number(_)
Number(t) ==
  IF t = <<>> THEN 0
  ELSE 10 * Number(SubSeq(t, 1, Len(t) - 1))
       + (CHOOSE d \in 0..9 : Digit[d + 1] = t[Len(t)])

\* An f32 of the configuration (a sensitivity, a duration in seconds) is
\* kept in thousandths; serde_json writes it in the shortest decimal text
\* that reads back as the same f32 (0.6, 30.0, 1.001) and reads that text.
FormatF32(x) ==
  LET a == IF x < 0 THEN 0 - x ELSE x
      frac == a % 1000
      tail == IF frac % 100 = 0 THEN Digits(frac \div 100)
              ELSE IF frac % 10 = 0
                     THEN <<Digit[(frac \div 100) + 1], Digit[((frac \div 10) % 10) + 1]>>
              ELSE <<Digit[(frac \div 100) + 1], Digit[((frac \div 10) % 10) + 1],
                     Digit[(frac % 10) + 1]>>
  IN  (IF x < 0 THEN <<"-">> ELSE <<>>) \o Digits(a \div 1000) \o <<".">> \o tail

ParseF32(t) ==
  LET neg == t # <<>> /\ Head(t) = "-"
      body == IF neg THEN Tail(t) ELSE t
      dot == CHOOSE i \in 1..Len(body) : body[i] = "."
      whole == SubSeq(body, 1, dot - 1)
      frac == SubSeq(body, dot + 1, Len(body))
      padded == frac \o [i \in 1..(3 - Len(frac)) |-> "0"]
      a == 1000 * Number(whole) + Number(padded)
  IN  IF neg THEN 0 - a ELSE a

\* The fields of voice_config.json: the names of #[serde(rename)], lines
\* 52-89.
JsonKeys ==
  {"enabled", "hotkey", "gpuAcceleration", "modelPath", "language",
   "sensitivity", "minDuration", "maxDuration", "sampleRate",
   "autoGpuDetection"}

\* A serializer that writes the fields under their Rust names.
to_string_pretty_Unrenamed(c) ==
  [enabled |-> c.enabled, hotkey |-> c.hotkey,
   gpu_acceleration |-> c.gpu_acceleration, model_path |-> c.model_path,
   language |-> c.language, sensitivity |-> FormatF32(c.sensitivity),
   min_duration |-> FormatF32(c.min_duration),
   max_duration |-> FormatF32(c.max_duration),
   sample_rate |-> Digits(c.sample_rate),
   auto_gpu_detection |-> c.auto_gpu_detection]

\* line 192: serde_json::to_string_pretty(config), the document as a
\* function from its keys to the texts of its values.
to_string_pretty(c) ==
  [enabled |-> c.enabled, hotkey |-> c.hotkey,
   gpuAcceleration |-> c.gpu_acceleration, modelPath |-> c.model_path,
   language |-> c.language, sensitivity |-> FormatF32(c.sensitivity),
   minDuration |-> FormatF32(c.min_duration),
   maxDuration |-> FormatF32(c.max_duration),
   sampleRate |-> Digits(c.sample_rate),
   autoGpuDetection |-> c.auto_gpu_detection]

\* line 154: serde_json::from_str::<VoiceConfig>; <<>> is Err (a field is
\* missing), <<config>> is Ok.
from_str(doc) ==
  IF \E k \in JsonKeys : k \notin DOMAIN doc THEN <<>>
  ELSE << [enabled |-> doc.enabled, hotkey |-> doc.hotkey,
           gpu_acceleration |-> doc.gpuAcceleration,
           model_path |-> doc.modelPath, language |-> doc.language,
           sensitivity |-> ParseF32(doc.sensitivity),
           min_duration |-> ParseF32(doc.minDuration),
           max_duration |-> ParseF32(doc.maxDuration),
           sample_rate |-> Number(doc.sampleRate),
           auto_gpu_detection |-> doc.autoGpuDetection] >>

\* A validation that turns away a sample rate of exactly 8000 Hz.
validate_voice_config_RateOpen(c) ==
  IF c.model_path = "" THEN "Model file path is not set. Please select a Whisper model file."
  ELSE IF c.model_path \notin ExistingPaths THEN "Model file not found: " \o c.model_path
  ELSE IF c.sensitivity < 0 \/ c.sensitivity > 1000 THEN "Sensitivity must be between 0.0 and 1.0"
  ELSE IF c.min_duration <= 0 THEN "Minimum duration must be positive"
  ELSE IF c.max_duration <= c.min_duration THEN "Maximum duration must be greater than minimum duration"
  ELSE IF c.sample_rate <= 8000 \/ c.sample_rate > 48000 THEN "Sample rate must be between 8000 and 48000 Hz"
  ELSE "ok"

\* A validation that checks the durations before the sensitivity.
validate_voice_config_DurationsFirst(c) ==
  IF c.model_path = "" THEN "Model file path is not set. Please select a Whisper model file."
  ELSE IF c.model_path \notin ExistingPaths THEN "Model file not found: " \o c.model_path
  ELSE IF c.min_duration <= 0 THEN "Minimum duration must be positive"
  ELSE IF c.max_duration <= c.min_duration THEN "Maximum duration must be greater than minimum duration"
  ELSE IF c.sensitivity < 0 \/ c.sensitivity > 1000 THEN "Sensitivity must be between 0.0 and 1.0"
  ELSE IF c.sample_rate < 8000 \/ c.sample_rate > 48000 THEN "Sample rate must be between 8000 and 48000 Hz"
  ELSE "ok"

\* validate_voice_config: "ok" or the error message.
validate_voice_config(c) ==
  IF c.model_path = "" THEN "Model file path is not set. Please select a Whisper model file."
  ELSE IF c.model_path \notin ExistingPaths THEN "Model file not found: " \o c.model_path
  ELSE IF c.sensitivity < 0 \/ c.sensitivity > 1000 THEN "Sensitivity must be between 0.0 and 1.0"
  ELSE IF c.min_duration <= 0 THEN "Minimum duration must be positive"
  ELSE IF c.max_duration <= c.min_duration THEN "Maximum duration must be greater than minimum duration"
  ELSE IF c.sample_rate < 8000 \/ c.sample_rate > 48000 THEN "Sample rate must be between 8000 and 48000 Hz"
  ELSE "ok"

\* min_duration * 16000.0 samples, min_duration being c.min_duration / 1000 s.
MinSamples(c) == (c.min_duration * TargetRate) \div 1000

\* VoiceProcessor::parse_hotkey on the key names of the model; "" is None.
parse_hotkey(name) ==
  IF name \in {"F2", "f2"} THEN "F2"
  ELSE IF name \in {"F3", "f3"} THEN "F3"
  ELSE ""

----------------------------------------------------------------------------
VARIABLES
  now,                  \* the clock, ms
  held,                 \* the key the user holds, or "none"
  holdStart,            \* when the user pressed it, or NoTime
  holdSeq,              \* number of holds begun so far
  nEvents,              \* key events produced so far
  file,                 \* voice_config.json: <<>> (no file) or <<document>>
  state_config,         \* VOICE_STATE.config
  state_processor,      \* VOICE_STATE.processor: a processor id or None
  state_is_initialized, \* VOICE_STATE.is_initialized
  nProcs,               \* VoiceProcessors constructed so far
  is_running,           \* VoiceProcessor.is_running, per processor
  config,               \* VoiceProcessor.config, per processor
  is_recording,         \* AudioRecorder.is_recording, per processor
  audio_data,           \* AudioRecorder.audio_data, per processor
  device,               \* AudioRecorder.sample_rate and channels
  transcriber,          \* the engine a processor owns
  chan,                 \* the unbounded channel tx -> rx, per processor
  worker,               \* the transcription_loop thread, per processor
  calls,                \* transcribe calls in progress
  GLOBAL_RECORDER, GLOBAL_TX, GLOBAL_CONFIG, GLOBAL_IS_RUNNING,
  TARGET_KEY, RECORDING_START_TIME,
  session_min,          \* bookkeeping: the minimum duration configured when
                        \* the session in progress was started, or None
  monitors,             \* the global_keyboard_event_loop threads
  nMons,                \* monitor threads spawned so far
  init,                 \* the initialize_voice_recognition call in progress
  last,                 \* what the last command returned, or what the last
                        \* key callback did
  lastTaken,            \* per processor: the last frame its worker received
  nFrames,              \* frames sent so far
  eng,                  \* a WhisperTranscriber taken alone: its construction and
                        \* its transcribe calls, step by step
  rec,                  \* an AudioRecorder taken alone: its flag and buffer, the
                        \* input stream callback and its caller, lock by lock
  req,                  \* the configuration commands taken alone: the last
                        \* save_config or load_config call, its argument and
                        \* what it returned
  cb,                   \* the listen callbacks taken step by step: per monitor
                        \* thread, where its callback is and its locals
  lk                    \* the locks taken alone: per thread, the mutexes it
                        \* holds and what is left of the handler it runs

vars == <<now, held, holdStart, holdSeq, nEvents, file, state_config, state_processor,
          state_is_initialized, nProcs, is_running, config, is_recording,
          audio_data, device, transcriber, chan, worker, calls,
          GLOBAL_RECORDER, GLOBAL_TX, GLOBAL_CONFIG, GLOBAL_IS_RUNNING,
          TARGET_KEY, RECORDING_START_TIME, session_min, monitors, nMons,
          init, last, lastTaken, nFrames, eng, rec, req, cb, lk>>

envVars == <<now, held, holdStart, holdSeq, nEvents>>
stateVars == <<file, state_config, state_processor, state_is_initialized>>
procVars == <<nProcs, is_running, config, device, transcriber>>
recVars == <<is_recording, audio_data>>
workVars == <<worker, calls, lastTaken>>
sendVars == <<chan, nFrames>>
globalVars == <<GLOBAL_RECORDER, GLOBAL_TX, GLOBAL_CONFIG, GLOBAL_IS_RUNNING, TARGET_KEY>>
monVars == <<monitors, nMons>>
sessionVars == <<RECORDING_START_TIME, session_min>>
unitVars == <<eng, rec, req, cb, lk>>
serviceVars == <<envVars, stateVars, procVars, recVars, workVars, sendVars,
                 globalVars, monVars, sessionVars, init, last>>

\* A monitor thread: its state, the processor whose handles it was given, the
\* key events rdev has for it, and bookkeeping: whether the start() that
\* spawned it restarted a processor that had been started and stopped, and
\* the hotkey that processor was configured with when start() was called.
NoMonitor == [st |-> "none", proc |-> None, inbox |-> <<>>, restart |-> FALSE,
              hotkey |-> ""]
IdleInit == [pc |-> "idle", cfg |-> DefaultConfig]
\* transcribe has returned nothing yet.
NoResult == [ok |-> FALSE, text |-> <<>>]

\* A worker thread: where it is in transcription_loop, and the locals of the
\* iteration: the frame it took (its number and length), the configuration
\* snapshot it took with it, and what transcribe returned.
WorkerAt(pc) == [pc |-> pc, frame |-> None, len |-> 0,
                 snapshot |-> DefaultConfig, result |-> NoResult]
IdleWorker == WorkerAt("none")

\* The engine taken alone, before its construction: the arguments and the
\* platform (what each detection finds, whether the model file loads, whether
\* the GPU backend comes up), the loads made, the mode string, and the
\* transcribe call in progress: its input length, the whisper states created
\* and inferences run for it, and its result.
Engine(pc, prefer_gpu, cuda, metal, opencl, model_ok, gpu_ok) ==
  [pc |-> pc, prefer_gpu |-> prefer_gpu, cuda |-> cuda, metal |-> metal,
   opencl |-> opencl, model_ok |-> model_ok, gpu_ok |-> gpu_ok,
   gpu_loads |-> 0, cpu_loads |-> 0, mode |-> "",
   ncalls |-> 0, n |-> 0, states |-> 0, fulls |-> 0, result |-> NoResult]
NoEngine == Engine("none", FALSE, FALSE, FALSE, FALSE, FALSE, FALSE)

\* The recorder taken alone, as AudioRecorder::new leaves it: the device's
\* rate and channels, the flag, the buffer, where the stream callback is and
\* the block it holds, where the caller of start_recording and
\* stop_recording is, and bookkeeping: start_recording calls begun, blocks
\* delivered, the last frame returned and the session that returned it.
Recorder(pc, sample_rate, channels) ==
  [ctl |-> pc, sample_rate |-> sample_rate, channels |-> channels,
   is_recording |-> FALSE, audio_data |-> <<>>,
   cb |-> "idle", data |-> <<>>,
   session |-> 0, delivered |-> 0, frame |-> <<>>, returned |-> 0]
NoRecorder == Recorder("none", 16000, 1)

\* No configuration command has been called.
NoRequest == [cmd |-> "none", arg |-> DefaultConfig, out |-> "ok"]

\* A listen callback between two events: it has no event in hand.  While
\* it handles one, its locals are the event, the configuration snapshot of
\* line 176 and the recorder and sender it cloned from the statics.
NoCallbacks == [m \in Mons |-> [pc |-> "idle"]]

\* The threads that take locks: two command handlers (the commands are
\* async and run on a pool), two monitor threads, the audio thread of the
\* input stream and a worker.  A thread at rest runs no handler and holds
\* no lock; ops is what is left of the handler it runs, runs the number of
\* handlers it has begun.
Threads == {"command1", "command2", "monitor1", "monitor2", "audio", "worker"}
NoThreads == [t \in Threads |-> [ops |-> <<>>, held |-> {}]]

\* mod.rs: VoiceRecognitionState::new, and the statics of
\* global_keyboard_event_loop before any monitor thread has run.
ServiceInit ==
  /\ now = 0 /\ held = "none" /\ holdStart = NoTime /\ holdSeq = 0 /\ nEvents = 0
  /\ file = <<>>
  /\ state_config = DefaultConfig
  /\ state_processor = None
  /\ state_is_initialized = FALSE
  /\ nProcs = 0
  /\ is_running = [p \in Procs |-> FALSE]
  /\ config = [p \in Procs |-> DefaultConfig]
  /\ is_recording = [p \in Procs |-> FALSE]
  /\ audio_data = [p \in Procs |-> <<>>]
  /\ device = [p \in Procs |-> CHOOSE d \in Devices : TRUE]
  /\ transcriber = [p \in Procs |-> None]
  /\ chan = [p \in Procs |-> <<>>]
  /\ worker = [p \in Procs |-> IdleWorker]
  /\ calls = {}
  /\ GLOBAL_RECORDER = None /\ GLOBAL_TX = None
  /\ GLOBAL_CONFIG = None /\ GLOBAL_IS_RUNNING = None
  /\ TARGET_KEY = "F2"
  /\ RECORDING_START_TIME = NoTime
  /\ session_min = None
  /\ monitors = [m \in Mons |-> NoMonitor]
  /\ nMons = 0
  /\ init = IdleInit
  /\ last = "ok"
  /\ lastTaken = [p \in Procs |-> 0]
  /\ nFrames = 0

Init ==
  /\ ServiceInit
  /\ eng = NoEngine
  /\ rec = NoRecorder
  /\ req = NoRequest
  /\ cb = NoCallbacks
  /\ lk = NoThreads

----------------------------------------------------------------------------
\* Handles

\* The Sender<Vec<f32>> clones of processor p: the tx field of the processor
\* (dropped with it when VOICE_STATE.processor is replaced), the argument of a
\* monitor thread that has not yet stored it, and GLOBAL_TX.
SenderAlive(p) ==
  \/ state_processor = p
  \/ GLOBAL_TX = p
  \/ \E m \in Mons : monitors[m].st = "spawned" /\ monitors[m].proc = p

\* The Arc<AudioRecorder> clones of processor p; the input stream lives as
\* long as one of them.
RecorderAlive(p) ==
  \/ state_processor = p
  \/ GLOBAL_RECORDER = p
  \/ \E m \in Mons : monitors[m].st = "spawned" /\ monitors[m].proc = p

\* What a command returns: "ok", or its error message.
Result(c, good, text) == IF good THEN "ok" ELSE text

----------------------------------------------------------------------------
\* recorder.rs

BlockSamples(d) == (d.sample_rate * d.channels * BlockMs) \div 1000

RECURSIVE Total(_)
Total(blocks) == IF blocks = <<>> THEN 0 ELSE Head(blocks) + Total(Tail(blocks))

\* data.len(): the samples in the buffer of processor p.
RawLen(p) == Total(audio_data[p])

\* f32 arithmetic of stop_recording.  An f32 has a significand of 24 bits;
\* every operation rounds its exact result to the nearest such number, ties
\* to the even significand.  A sample count or an index below 2^24 is an
\* f32 as it stands.
RECURSIVE Pow2(_)
Pow2(k) == IF k = 0 THEN 1 ELSE 2 * Pow2(k - 1)

RECURSIVE BitLen(_)
BitLen(n) == IF n = 0 THEN 0 ELSE 1 + BitLen(n \div 2)

\* line 78: resample_ratio = sample_rate as f32 / 16000.0, as the pair
\* <<m, s>> of its significand and scale: the ratio is m / 2^s with
\* 2^23 <= m < 2^24.  16000 = 125 * 2^7, and no quotient by 125 is a tie.
resample_ratio(sample_rate) ==
  LET j == IF sample_rate >= TargetRate
             THEN BitLen(sample_rate \div TargetRate) - 1
             ELSE 0 - BitLen((TargetRate - 1) \div sample_rate)
      s == 23 - j
      num == sample_rate * Pow2(s - 7)
  IN  <<(num \div 125) + (IF 2 * (num % 125) >= 125 THEN 1 ELSE 0), s>>

\* line 83: index = (i as f32 * resample_ratio) as usize.  The product
\* i * m is formed in two halves of m; it is r / 2^s above the integer
\* whole, and the f32 nearest to it is the integer whole + 1 exactly when
\* that is not farther than half a unit in the last place of the product.
SourceIndex(i, sample_rate) ==
  LET m == resample_ratio(sample_rate)[1]
      s == resample_ratio(sample_rate)[2]
      hi == i * (m \div 4096)
      lo == i * (m % 4096)
      top == hi + (lo \div 4096)
      whole == top \div Pow2(s - 12)
      r == (top % Pow2(s - 12)) * 4096 + (lo % 4096)
      e == BitLen(whole) + s - 25
  IN  IF r = 0 THEN whole
      ELSE IF e >= 0 /\ Pow2(s) - r <= Pow2(e) THEN whole + 1
      ELSE whole

\* The quotient and remainder of q * 2^k + r * 2^k / m by long division.
RECURSIVE LongDiv(_, _, _, _)
LongDiv(q, r, k, m) ==
  IF k = 0 THEN <<q, r>>
  ELSE LongDiv(2 * q + ((2 * r) \div m), (2 * r) % m, k - 1, m)

\* A length that is rounded up whenever the division leaves a remainder.
new_length_RoundsUp(n, sample_rate) ==
  LET m == resample_ratio(sample_rate)[1]
      s == resample_ratio(sample_rate)[2]
      d == LongDiv(n \div m, n % m, s, m)
  IN  IF d[2] = 0 THEN d[1] ELSE d[1] + 1

\* line 79: new_length = (data.len() as f32 / resample_ratio) as usize
new_length(n, sample_rate) ==
  LET m == resample_ratio(sample_rate)[1]
      s == resample_ratio(sample_rate)[2]
      d == LongDiv(n \div m, n % m, s, m)
      e == 25 - BitLen(d[1])
  IN  IF d[2] = 0 THEN d[1]
      ELSE IF e >= 0 /\ m - d[2] <= m \div Pow2(e) THEN d[1] + 1
      ELSE d[1]

\* stop_recording: new_length = (data.len() / (sample_rate / 16000)) as usize;
\* every index i * ratio below new_length * ratio is inside the buffer, so
\* the returned vector has new_length samples.
ResampledLen(n, rate) == (n * TargetRate) \div rate

\* The hardware callback of processor p's stream: appends while armed.
AudioCallback(p) ==
  /\ p <= nProcs
  /\ RecorderAlive(p)
  /\ is_recording[p]
  /\ Len(audio_data[p]) < MaxBlocks
  /\ audio_data' = [audio_data EXCEPT ![p] = Append(@, BlockSamples(device[p]))]
  /\ UNCHANGED <<envVars, stateVars, procVars, is_recording, workVars, sendVars,
                 globalVars, sessionVars, monVars, init, last>>
  /\ UNCHANGED unitVars

----------------------------------------------------------------------------
\* commands.rs

\* config.rs: load_voice_config reads the file; a missing file yields the
\* default configuration, which is written back.
load_voice_config ==
  IF file = <<>> \/ from_str(file[1]) = <<>> THEN DefaultConfig
  ELSE from_str(file[1])[1]

\* lines 177-183: what load_voice_config leaves in the file.
LoadedFile ==
  IF file = <<>> \/ from_str(file[1]) = <<>>
    THEN <<to_string_pretty(DefaultConfig)>>
    ELSE file

\* A save_config that puts an out-of-range sensitivity back into range
\* and saves.
save_voice_config_cmd_Clamps(c) ==
  LET d == [c EXCEPT !.sensitivity = IF @ > 1000 THEN 1000
                                     ELSE IF @ < 0 THEN 0 ELSE @]
  IN
  /\ IF validate_voice_config(d) # "ok"
       THEN /\ last' = Result("save_config", FALSE, validate_voice_config(d))
            /\ UNCHANGED <<file, state_config, config>>
       ELSE /\ file' = <<to_string_pretty(d)>>
            /\ state_config' = d
            /\ config' = IF state_processor # None
                           THEN [config EXCEPT ![state_processor] = d]
                           ELSE config
            /\ last' = Result("save_config", TRUE, "")
  /\ UNCHANGED <<envVars, state_processor, state_is_initialized, nProcs,
                 is_running, device, transcriber, recVars, workVars, sendVars,
                 globalVars, sessionVars, monVars, init>>

\* A save_config that also makes the saved hotkey the trigger key.
save_voice_config_cmd_Rebinds(c) ==
  /\ IF validate_voice_config(c) # "ok"
       THEN /\ last' = Result("save_config", FALSE, validate_voice_config(c))
            /\ UNCHANGED <<file, state_config, config, TARGET_KEY>>
       ELSE /\ file' = <<to_string_pretty(c)>>
            /\ state_config' = c
            /\ config' = IF state_processor # None
                           THEN [config EXCEPT ![state_processor] = c]
                           ELSE config
            /\ TARGET_KEY' = c.hotkey
            /\ last' = Result("save_config", TRUE, "")
  /\ UNCHANGED <<envVars, state_processor, state_is_initialized, nProcs,
                 is_running, device, transcriber, recVars, workVars, sendVars,
                 GLOBAL_RECORDER, GLOBAL_TX, GLOBAL_CONFIG, GLOBAL_IS_RUNNING,
                 sessionVars, monVars, init>>

\* commands.rs lines 28-56: save_voice_config_cmd
save_voice_config_cmd(c) ==
  /\ IF validate_voice_config(c) # "ok"
       THEN /\ last' = Result("save_config", FALSE, validate_voice_config(c))
            /\ UNCHANGED <<file, state_config, config>>
       ELSE /\ file' = <<to_string_pretty(c)>>
            /\ state_config' = c
            /\ config' = IF state_processor # None
                           THEN [config EXCEPT ![state_processor] = c]
                           ELSE config
            /\ last' = Result("save_config", TRUE, "")
  /\ UNCHANGED <<envVars, state_processor, state_is_initialized, nProcs,
                 is_running, device, transcriber, recVars, workVars, sendVars,
                 globalVars, sessionVars, monVars, init>>

\* The user interface saves configuration c.
SaveConfig(c) ==
  /\ save_voice_config_cmd(c)
  /\ UNCHANGED unitVars

\* A stop that leaves the flag as it finds it.
stop_KeepsFlag(p) == is_running

\* VoiceProcessor::stop
stop(p) == [is_running EXCEPT ![p] = FALSE]

\* A start that leaves the flag as it finds it.
start_KeepsFlag(p) == is_running

\* VoiceProcessor::start: the flag; the monitor thread is spawned by Spawn.
start(p) == [is_running EXCEPT ![p] = TRUE]

\* Processor p has been started before and its flag is cleared.
Stopped(p) ==
  /\ ~is_running[p]
  /\ \E m \in Mons : monitors[m].st # "none" /\ monitors[m].proc = p

\* thread::spawn of global_keyboard_event_loop with the handles of p.
Spawn(p, again) ==
  /\ nMons' = nMons + 1
  /\ monitors' = [monitors EXCEPT ![nMons + 1] =
                    [st |-> "spawned", proc |-> p, inbox |-> <<>>,
                     restart |-> again, hotkey |-> config[p].hotkey]]

\* initialize_voice_recognition, lines 61-68: stop the existing processor.
InitBegin ==
  /\ init.pc = "idle"
  /\ nProcs < MaxProcs
  /\ nMons < MaxMonitors
  /\ is_running' = IF state_processor # None THEN stop(state_processor)
                                             ELSE is_running
  /\ init' = [init EXCEPT !.pc = "stopped"]
  /\ UNCHANGED <<envVars, stateVars, nProcs, config, device, transcriber,
                 recVars, workVars, sendVars, globalVars,
                 sessionVars, monVars, last>>
  /\ UNCHANGED unitVars

\* lines 70-74: load the configuration and validate it.
InitLoad ==
  /\ init.pc = "stopped"
  /\ file' = LoadedFile
  /\ IF validate_voice_config(load_voice_config) # "ok"
       THEN /\ init' = IdleInit
            /\ last' = Result("initialize", FALSE,
                                 validate_voice_config(load_voice_config))
       ELSE /\ init' = [pc |-> "loaded", cfg |-> load_voice_config]
            /\ UNCHANGED last
  /\ UNCHANGED <<envVars, state_config, state_processor, state_is_initialized,
                 procVars, recVars, workVars, sendVars, globalVars,
                 sessionVars, monVars>>
  /\ UNCHANGED unitVars

\* One engine shared by every processor.
NewTranscriber_Shared(p) == 1

\* The engine VoiceProcessor::new constructs for processor p.
NewTranscriber(p) == p

\* lines 76-85 and VoiceProcessor::new: construct the recorder and the
\* transcriber (either may fail), the channel and the worker thread, then
\* install the processor.
InitNew ==
  /\ init.pc = "loaded"
  /\ \E d \in Devices :
       LET p == nProcs + 1 IN
       /\ nProcs' = p
       /\ device' = [device EXCEPT ![p] = d]
       /\ transcriber' = [transcriber EXCEPT ![p] = NewTranscriber(p)]
       /\ config' = [config EXCEPT ![p] = init.cfg]
       /\ worker' = [worker EXCEPT ![p] = WorkerAt("recv")]
       /\ state_processor' = p
       /\ state_is_initialized' = TRUE
       /\ state_config' = init.cfg
       /\ init' = [init EXCEPT !.pc = "installed"]
  /\ UNCHANGED <<envVars, file, is_running, recVars, calls, lastTaken, sendVars,
                 globalVars, sessionVars, monVars, last>>
  /\ UNCHANGED unitVars

\* A failed construction that takes the service back to not initialized.
InitNewFails_Resets ==
  /\ init.pc = "loaded"
  /\ \E err \in {"Failed to initialize audio recorder",
                 "Failed to initialize Whisper transcriber"} :
       last' = Result("initialize", FALSE,
                      "Failed to initialize voice recognition: " \o err)
  /\ init' = IdleInit
  /\ state_is_initialized' = FALSE
  /\ UNCHANGED <<envVars, file, state_config, state_processor, procVars,
                 recVars, workVars, sendVars, globalVars, sessionVars, monVars>>
  /\ UNCHANGED unitVars

\* lines 99-101 and processor.rs lines 22-44: VoiceProcessor::new failed (no input device, or the model
\* could not be loaded); nothing is installed.
InitNewFails ==
  /\ init.pc = "loaded"
  /\ \E err \in {"Failed to initialize audio recorder",
                 "Failed to initialize Whisper transcriber"} :
       last' = Result("initialize", FALSE,
                      "Failed to initialize voice recognition: " \o err)
  /\ init' = IdleInit
  /\ UNCHANGED <<envVars, stateVars, procVars, recVars, workVars, sendVars,
                 globalVars, sessionVars, monVars>>
  /\ UNCHANGED unitVars

\* lines 87-97: start the installed processor and return the summary.
InitStart ==
  /\ init.pc = "installed"
  /\ is_running' = start(state_processor)
  /\ Spawn(state_processor, Stopped(state_processor))
  /\ init' = IdleInit
  /\ last' = Result("initialize", TRUE, "")
  /\ UNCHANGED <<envVars, stateVars, nProcs, config, device, transcriber,
                 recVars, workVars, sendVars, globalVars,
                 sessionVars>>
  /\ UNCHANGED unitVars

\* A start command that reports success without a processor.
StartCmd_NoCheck ==
  /\ nMons + (IF init.pc = "idle" THEN 0 ELSE 1) < MaxMonitors
  /\ IF state_processor # None
       THEN /\ is_running' = [is_running EXCEPT ![state_processor] = TRUE]
            /\ nMons' = nMons + 1
            /\ monitors' = [monitors EXCEPT ![nMons + 1] =
                              [st |-> "spawned", proc |-> state_processor,
                               inbox |-> <<>>, restart |-> FALSE,
                               hotkey |-> config[state_processor].hotkey]]
            /\ last' = "ok"
       ELSE /\ last' = "ok"
            /\ UNCHANGED <<is_running, monVars>>
  /\ UNCHANGED <<envVars, stateVars, nProcs, config, device, transcriber,
                 recVars, workVars, sendVars, globalVars,
                 sessionVars, init>>
  /\ UNCHANGED unitVars

\* start_voice_recognition
StartCmd ==
  /\ nMons + (IF init.pc = "idle" THEN 0 ELSE 1) < MaxMonitors
  /\ IF state_processor # None
       THEN /\ is_running' = start(state_processor)
            /\ Spawn(state_processor, Stopped(state_processor))
            /\ last' = Result("start", TRUE, "")
       ELSE /\ last' = Result("start", FALSE, "Voice recognition not initialized. Call initialize_voice_recognition first.")
            /\ UNCHANGED <<is_running, monVars>>
  /\ UNCHANGED <<envVars, stateVars, nProcs, config, device, transcriber,
                 recVars, workVars, sendVars, globalVars,
                 sessionVars, init>>
  /\ UNCHANGED unitVars

\* A stop command that also ends the recording in progress.
StopCmd_Disarms ==
  /\ IF state_processor # None
       THEN /\ is_running' = [is_running EXCEPT ![state_processor] = FALSE]
            /\ is_recording' = [is_recording EXCEPT ![state_processor] = FALSE]
            /\ RECORDING_START_TIME' = NoTime
            /\ session_min' = None
            /\ last' = "ok"
       ELSE /\ last' = "Voice recognition not initialized."
            /\ UNCHANGED <<is_running, is_recording, sessionVars>>
  /\ UNCHANGED <<envVars, stateVars, nProcs, config, device, transcriber,
                 audio_data, workVars, sendVars, globalVars, monVars, init>>
  /\ UNCHANGED unitVars

\* stop_voice_recognition
StopCmd ==
  /\ IF state_processor # None
       THEN /\ is_running' = stop(state_processor)
            /\ last' = Result("stop", TRUE, "")
       ELSE /\ last' = Result("stop", FALSE, "Voice recognition not initialized.")
            /\ UNCHANGED is_running
  /\ UNCHANGED <<envVars, stateVars, nProcs, config, device, transcriber,
                 recVars, workVars, sendVars, globalVars,
                 sessionVars, monVars, init>>
  /\ UNCHANGED unitVars

\* get_voice_status (audio_level left out)
get_voice_status ==
  [is_initialized |-> state_is_initialized,
   is_running |-> IF state_processor # None THEN is_running[state_processor]
                                            ELSE FALSE,
   mode_info |-> IF state_processor # None THEN "CPU" ELSE "none"]

----------------------------------------------------------------------------
\* The user and the clock

Tick ==
  /\ now < MaxTicks * TickMs
  /\ now' = now + TickMs
  /\ UNCHANGED <<held, holdStart, holdSeq, nEvents, stateVars, procVars, recVars,
                 workVars, sendVars, globalVars, sessionVars,
                 monVars, init, last>>
  /\ UNCHANGED unitVars

\* rdev::listen delivers every key event to every listener thread.
Deliver(e) ==
  [m \in Mons |-> IF monitors[m].st = "listening"
                    THEN [monitors[m] EXCEPT !.inbox = Append(@, e)]
                    ELSE monitors[m]]

InboxRoom ==
  \A m \in Mons : Len(monitors[m].inbox) < MaxPending

\* The user presses key k.
KeyPress(k) ==
  /\ held = "none"
  /\ nEvents < MaxEvents
  /\ InboxRoom
  /\ held' = k
  /\ holdStart' = now
  /\ holdSeq' = holdSeq + 1
  /\ nEvents' = nEvents + 1
  /\ monitors' = Deliver([type |-> "press", key |-> k,
                          hold |-> holdSeq + 1, t0 |-> now])
  /\ UNCHANGED <<now, stateVars, procVars, recVars, workVars, sendVars,
                 globalVars, sessionVars, nMons, init, last>>
  /\ UNCHANGED unitVars

\* The key is held down long enough for the system to repeat its press.
KeyRepeat ==
  /\ held # "none"
  /\ now > holdStart
  /\ nEvents < MaxEvents
  /\ InboxRoom
  /\ nEvents' = nEvents + 1
  /\ monitors' = Deliver([type |-> "press", key |-> held,
                          hold |-> holdSeq, t0 |-> holdStart])
  /\ UNCHANGED <<now, held, holdStart, holdSeq, stateVars, procVars, recVars,
                 workVars, sendVars, globalVars, sessionVars, nMons, init,
                 last>>
  /\ UNCHANGED unitVars

\* The user releases the key.
KeyRelease ==
  /\ held # "none"
  /\ InboxRoom
  /\ held' = "none"
  /\ holdStart' = NoTime
  /\ nEvents' = nEvents + 1
  /\ monitors' = Deliver([type |-> "release", key |-> held,
                          hold |-> holdSeq, t0 |-> holdStart])
  /\ UNCHANGED <<now, holdSeq, stateVars, procVars, recVars, workVars,
                 sendVars, globalVars, sessionVars, nMons, init,
                 last>>
  /\ UNCHANGED unitVars

----------------------------------------------------------------------------
\* processor.rs: global_keyboard_event_loop

\* lines 130-140: the thread stores its handles in the statics, resolves the
\* trigger key, and starts listening.
MonitorSetup(m) ==
  /\ monitors[m].st = "spawned"
  /\ LET p == monitors[m].proc
         key == parse_hotkey(config[p].hotkey)
     IN /\ GLOBAL_RECORDER' = p
        /\ GLOBAL_TX' = p
        /\ GLOBAL_CONFIG' = p
        /\ GLOBAL_IS_RUNNING' = p
        /\ TARGET_KEY' = IF key = "" THEN "F2" ELSE key
  /\ monitors' = [monitors EXCEPT ![m].st = "listening"]
  /\ UNCHANGED <<envVars, stateVars, procVars, recVars, workVars, sendVars,
                 sessionVars, nMons, init, last>>
  /\ UNCHANGED unitVars

\* lines 145-174: the statics are set and the service is running.
Running ==
  /\ GLOBAL_RECORDER # None /\ GLOBAL_TX # None
  /\ GLOBAL_CONFIG # None /\ GLOBAL_IS_RUNNING # None
  /\ is_running[GLOBAL_IS_RUNNING]

\* A callback that takes every key for the trigger key.
Matches_AnyKey(key, target_key) == TRUE

\* lines 187 and 196: key == target_key
Matches(key, target_key) == key = target_key

\* A callback that does not look at the enabled flag.
Enabled_Unchecked(snapshot) == TRUE

\* lines 178-181
Enabled(snapshot) == snapshot.enabled

\* lines 200-202: recording_duration.as_millis() >= 500
LongEnough(start_time) == now - start_time >= FloorMs

\* A send that checks only that the frame is not empty.
Accepted_NonEmpty(len, snapshot) == len > 0

\* lines 204-205: the frame is sent
Accepted(len, snapshot) ==
  len > 0 /\ len * 1000 >= snapshot.min_duration * TargetRate

\* The frame stop_recording returns for processor r when the release of
\* hold e.hold is handled; hold, held_ms and restarted are bookkeeping (the
\* key hold whose release produced the frame, the time from the press of
\* that hold to now, and whether a stopped processor had been restarted by
\* then).
Frame(r, e) ==
  [id |-> nFrames + 1,
   len |-> ResampledLen(RawLen(r), device[r].sample_rate),
   hold |-> e.hold,
   held_ms |-> now - e.t0,
   restarted |-> \E m \in Mons : monitors[m].restart]

\* A press handler that starts a session whether or not one is in progress.
OnKeyPress_Rearms(r, snapshot) ==
  /\ RECORDING_START_TIME' = now
  /\ session_min' = snapshot.min_duration
  /\ is_recording' = [is_recording EXCEPT ![r] = TRUE]
  /\ audio_data' = [audio_data EXCEPT ![r] = <<>>]

\* lines 186-194
OnKeyPress(r, snapshot) ==
  IF ~is_recording[r]
    THEN /\ RECORDING_START_TIME' = now
         /\ session_min' = snapshot.min_duration
         /\ is_recording' = [is_recording EXCEPT ![r] = TRUE]
         /\ audio_data' = [audio_data EXCEPT ![r] = <<>>]
    ELSE UNCHANGED <<sessionVars, recVars>>

\* lines 195-220
OnKeyRelease(r, tx, snapshot, e) ==
  IF is_recording[r]
    THEN /\ is_recording' = [is_recording EXCEPT ![r] = FALSE]
         /\ RECORDING_START_TIME' = NoTime
         /\ session_min' = None
         /\ UNCHANGED audio_data
         /\ IF /\ RECORDING_START_TIME # NoTime
               /\ LongEnough(RECORDING_START_TIME)
               /\ Accepted(Frame(r, e).len, snapshot)
              THEN /\ chan' = [chan EXCEPT ![tx] = Append(@, Frame(r, e))]
                   /\ nFrames' = nFrames + 1
              ELSE UNCHANGED sendVars
    ELSE UNCHANGED <<sessionVars, recVars, sendVars>>

\* The listen callback of monitor thread m on its next event.
Callback(m) ==
  /\ monitors[m].st = "listening"
  /\ monitors[m].inbox # <<>>
  /\ monitors' = [monitors EXCEPT ![m].inbox = Tail(@)]
  /\ LET e == Head(monitors[m].inbox) IN
       /\ last' = IF ~Running THEN "callback: not running"
                  ELSE IF ~Enabled(config[GLOBAL_CONFIG]) THEN "callback: disabled"
                  ELSE IF ~Matches(e.key, TARGET_KEY) THEN "callback: other key"
                  ELSE "callback: trigger key"
       /\ IF Running /\ Enabled(config[GLOBAL_CONFIG]) /\ Matches(e.key, TARGET_KEY)
            THEN IF e.type = "press"
                   THEN OnKeyPress(GLOBAL_RECORDER, config[GLOBAL_CONFIG])
                        /\ UNCHANGED sendVars
                   ELSE OnKeyRelease(GLOBAL_RECORDER, GLOBAL_TX,
                                     config[GLOBAL_CONFIG], e)
            ELSE UNCHANGED <<sessionVars, recVars, sendVars>>
  /\ UNCHANGED <<envVars, stateVars, procVars, workVars, globalVars, nMons,
                 init>>
  /\ UNCHANGED unitVars

----------------------------------------------------------------------------
\* processor.rs: transcription_loop

\* A receive that takes the newest frame.
RecvIndex_Newest(q) == Len(q)

\* rx.recv() takes the oldest frame of the channel.
RecvIndex(q) == 1
Received(q) == q[RecvIndex(q)]
Remaining(q) == [i \in 1..(Len(q) - 1) |-> IF i < RecvIndex(q) THEN q[i] ELSE q[i + 1]]

\* A worker that skips nothing.
TooShort_Never(len, snapshot) == FALSE

\* line 276: the frame is shorter than the configured minimum.
TooShort(len, snapshot) == len < MinSamples(snapshot)

\* What the Whisper model may produce for a frame: an error, or text with
\* or without speech in it.
ModelOutputs ==
  { [ok |-> FALSE, text |-> <<>>],
    [ok |-> TRUE, text |-> <<" ">>],
    [ok |-> TRUE, text |-> <<" ", "h", "i">>] }

\* str::trim on a text, a sequence of characters.
RECURSIVE TrimStart(_)
TrimStart(t) ==
  IF t # <<>> /\ Head(t) = " " THEN TrimStart(Tail(t)) ELSE t

RECURSIVE TrimEnd(_)
TrimEnd(t) ==
  IF t # <<>> /\ t[Len(t)] = " " THEN TrimEnd(SubSeq(t, 1, Len(t) - 1)) ELSE t

Trim(t) == TrimEnd(TrimStart(t))

\* A length check that also turns away a frame of exactly 0.1 s.
ShortInput_Inclusive(n) == n <= ShortAudio

\* transcriber.rs lines 27-30: the frame is too short for the model.
ShortInput(n) == n < ShortAudio

\* WhisperTranscriber::transcribe on a frame of n samples for which the model
\* would produce out.
transcribe(n, out) ==
  IF ShortInput(n) THEN [ok |-> TRUE, text |-> <<>>]
  ELSE IF out.ok THEN [ok |-> TRUE, text |-> Trim(out.text)]
  ELSE [ok |-> FALSE, text |-> <<>>]

\* line 288: there is text to send.
HasText(result) == result.ok /\ Trim(result.text) # <<>>

\* lines 273-286: take a frame with a configuration snapshot; skip it or call
\* transcribe on it.
WorkerRecv(p) ==
  /\ worker[p].pc = "recv"
  /\ chan[p] # <<>>
  /\ LET f == Received(chan[p]) IN
       /\ chan' = [chan EXCEPT ![p] = Remaining(chan[p])]
       /\ lastTaken' = [lastTaken EXCEPT ![p] = f.id]
       /\ IF TooShort(f.len, config[p])
            THEN UNCHANGED <<worker, calls>>
            ELSE /\ worker' = [worker EXCEPT ![p] =
                                 [pc |-> "transcribing", frame |-> f.id,
                                  len |-> f.len, snapshot |-> config[p],
                                  result |-> NoResult]]
                 /\ calls' = calls \cup {[caller |-> <<"worker", p>>,
                                          engine |-> transcriber[p]]}
  /\ UNCHANGED <<envVars, stateVars, procVars, recVars, nFrames,
                 globalVars, sessionVars, monVars, init, last>>
  /\ UNCHANGED unitVars

\* lines 286-298: transcribe returns; with text the worker goes on to send
\* it, with an error it goes on to log it, with no text it takes the next
\* frame.
WorkerReturn(p) ==
  /\ worker[p].pc = "transcribing"
  /\ \E out \in ModelOutputs :
       LET result == transcribe(worker[p].len, out) IN
         worker' = IF HasText(result)
                     THEN [worker EXCEPT ![p].pc = "typing", ![p].result = result]
                   ELSE IF ~result.ok
                     THEN [worker EXCEPT ![p].pc = "failed", ![p].result = result]
                   ELSE [worker EXCEPT ![p] = WorkerAt("recv")]
  /\ calls' = calls \ {[caller |-> <<"worker", p>>, engine |-> transcriber[p]]}
  /\ UNCHANGED <<envVars, stateVars, procVars, recVars, sendVars, lastTaken,
                 globalVars, sessionVars, monVars, init, last>>
  /\ UNCHANGED unitVars

\* A worker that gives up after an error of transcribe.
WorkerLogged_Exits(p) ==
  /\ worker[p].pc = "failed"
  /\ worker' = [worker EXCEPT ![p].pc = "exited"]
  /\ UNCHANGED <<envVars, stateVars, procVars, recVars, sendVars, calls,
                 lastTaken, globalVars, sessionVars, monVars, init, last>>
  /\ UNCHANGED unitVars

\* lines 296-298: the error of transcribe is logged; the loop goes on.
WorkerLogged(p) ==
  /\ worker[p].pc = "failed"
  /\ worker' = [worker EXCEPT ![p] = WorkerAt("recv")]
  /\ UNCHANGED <<envVars, stateVars, procVars, recVars, sendVars, calls,
                 lastTaken, globalVars, sessionVars, monVars, init, last>>
  /\ UNCHANGED unitVars

\* lines 292-295 and 305-309: send_text_to_active_window returns, with
\* success or with an error that is logged; the loop goes on in both cases.
WorkerTyped(p) ==
  /\ worker[p].pc = "typing"
  /\ worker' = [worker EXCEPT ![p] = WorkerAt("recv")]
  /\ UNCHANGED <<envVars, stateVars, procVars, recVars, sendVars, calls,
                 lastTaken, globalVars, sessionVars, monVars, init, last>>
  /\ UNCHANGED unitVars

\* A receive that fails as soon as every sender is gone.
Disconnected_DropsQueue(p) == ~SenderAlive(p)

\* A receive that fails whenever the channel is empty.
Disconnected_WhenEmpty(p) == chan[p] = <<>>

\* line 273: recv fails once the channel is empty and every sender is gone.
Disconnected(p) == chan[p] = <<>> /\ ~SenderAlive(p)

WorkerExit(p) ==
  /\ worker[p].pc = "recv"
  /\ Disconnected(p)
  /\ worker' = [worker EXCEPT ![p] = WorkerAt("exited")]
  /\ UNCHANGED <<envVars, stateVars, procVars, recVars, sendVars, calls,
                 lastTaken, globalVars, sessionVars, monVars, init,
                 last>>
  /\ UNCHANGED unitVars

----------------------------------------------------------------------------
Next ==
  \/ Tick
  \/ \E k \in Keys : KeyPress(k)
  \/ KeyRelease
  \/ \E c \in InputConfigs : SaveConfig(c)
  \/ InitBegin
  \/ InitLoad
  \/ InitNew
  \/ InitNewFails
  \/ InitStart
  \/ StartCmd
  \/ StopCmd
  \/ \E m \in Mons : MonitorSetup(m)
  \/ \E m \in Mons : Callback(m)
  \/ \E p \in Procs : AudioCallback(p)
  \/ \E p \in Procs : WorkerRecv(p)
  \/ \E p \in Procs : WorkerReturn(p)
  \/ \E p \in Procs : WorkerLogged(p)
  \/ \E p \in Procs : WorkerTyped(p)
  \/ \E p \in Procs : WorkerExit(p)

Spec == Init /\ [][Next]_vars

----------------------------------------------------------------------------
\* The commands taken alone: no key is pressed and no audio arrives, so the
\* listen callbacks, the recorder and the workers are at rest.  The
\* installed processor, its running flag, the initialized flag and what a
\* command returns are written by the commands only.
CommandNext ==
  \/ \E c \in InputConfigs : SaveConfig(c)
  \/ InitBegin
  \/ InitLoad
  \/ InitNew
  \/ InitNewFails
  \/ InitStart
  \/ StartCmd
  \/ StopCmd
  \/ \E m \in Mons : MonitorSetup(m)

CommandSpec == Init /\ [][CommandNext]_vars

----------------------------------------------------------------------------
\* The system with one trigger key, valid configurations and no construction
\* failure, under fair scheduling of the worker threads: a worker that can
\* receive does, and a transcribe call returns.
LiveConfigs == {BaseConfig, [BaseConfig EXCEPT !.enabled = FALSE]}

LiveNext ==
  \/ Tick
  \/ KeyPress("F2")
  \/ KeyRelease
  \/ \E c \in LiveConfigs : SaveConfig(c)
  \/ InitBegin
  \/ InitLoad
  \/ InitNew
  \/ InitStart
  \/ StopCmd
  \/ \E m \in Mons : MonitorSetup(m)
  \/ \E m \in Mons : Callback(m)
  \/ \E p \in Procs : AudioCallback(p)
  \/ \E p \in Procs : WorkerRecv(p)
  \/ \E p \in Procs : WorkerReturn(p)
  \/ \E p \in Procs : WorkerLogged(p)
  \/ \E p \in Procs : WorkerTyped(p)
  \/ \E p \in Procs : WorkerExit(p)

Fairness ==
  \A p \in Procs :
    /\ WF_vars(WorkerRecv(p)) /\ WF_vars(WorkerReturn(p))
    /\ WF_vars(WorkerLogged(p)) /\ WF_vars(WorkerTyped(p))

FairSpec == Init /\ [][LiveNext]_vars /\ Fairness

----------------------------------------------------------------------------
\* The same restricted system with key auto-repeat: a key held down for a
\* tick or more produces further press events.
RepeatNext == LiveNext \/ KeyRepeat

RepeatSpec == Init /\ [][RepeatNext]_vars

----------------------------------------------------------------------------
\* transcriber.rs: the engine taken alone

\* Input lengths of transcribe, in samples.
SampleCounts == {0, 1599, 1600, 1601, 16000}

\* lines 110-147: has_gpu = !gpu_info.is_empty()
detect_gpu_capabilities(cuda, metal, opencl) == cuda \/ metal \/ opencl

\* A constructor that goes for the GPU whenever it is preferred.
GpuFirst_Preferred(prefer_gpu, has_gpu) == prefer_gpu

\* line 158
GpuFirst(prefer_gpu, has_gpu) == prefer_gpu /\ has_gpu

EngineInit ==
  /\ ServiceInit
  /\ rec = NoRecorder
  /\ req = NoRequest
  /\ cb = NoCallbacks
  /\ lk = NoThreads
  /\ \E prefer_gpu, cuda, metal, opencl, model_ok, gpu_ok \in BOOLEAN :
       eng = Engine("new", prefer_gpu, cuda, metal, opencl, model_ok, gpu_ok)

\* lines 154-158 and 185-189: create_whisper_context_with_auto_fallback
\* detects the capabilities and chooses the first load.
EngineDetect ==
  /\ eng.pc = "new"
  /\ eng' = [eng EXCEPT !.pc =
       IF GpuFirst(eng.prefer_gpu,
                   detect_gpu_capabilities(eng.cuda, eng.metal, eng.opencl))
         THEN "gpu" ELSE "cpu"]
  /\ UNCHANGED <<serviceVars, rec, req, cb, lk>>

\* lines 162-184: the load with use_gpu(true); its error is printed and the
\* function goes on to the CPU load.
EngineGpuLoad ==
  /\ eng.pc = "gpu"
  /\ eng' = IF eng.model_ok /\ eng.gpu_ok
              THEN [eng EXCEPT !.gpu_loads = @ + 1, !.pc = "ready",
                               !.mode = "GPU (CUDA)"]
              ELSE [eng EXCEPT !.gpu_loads = @ + 1, !.pc = "cpu"]
  /\ UNCHANGED <<serviceVars, rec, req, cb, lk>>

\* lines 192-196: the load with the default parameters; its error is the
\* error of the constructor (line 194, and line 12).
EngineCpuLoad ==
  /\ eng.pc = "cpu"
  /\ eng' = IF eng.model_ok
              THEN [eng EXCEPT !.cpu_loads = @ + 1, !.pc = "ready",
                               !.mode = "CPU"]
              ELSE [eng EXCEPT !.cpu_loads = @ + 1, !.pc = "error"]
  /\ UNCHANGED <<serviceVars, rec, req, cb, lk>>

\* lines 22-30: transcribe is called with n samples; a short input returns
\* the empty string at once.
EngineTranscribe(n) ==
  /\ eng.pc = "ready"
  /\ eng.ncalls < MaxCalls
  /\ eng' = IF ShortInput(n)
              THEN [eng EXCEPT !.ncalls = @ + 1, !.n = n, !.states = 0,
                               !.fulls = 0, !.pc = "returned",
                               !.result = [ok |-> TRUE, text |-> <<>>]]
              ELSE [eng EXCEPT !.ncalls = @ + 1, !.n = n, !.states = 0,
                               !.fulls = 0, !.pc = "state",
                               !.result = NoResult]
  /\ UNCHANGED <<serviceVars, rec, req, cb, lk>>

\* line 33: self.context.create_state()?
EngineCreateState(ok) ==
  /\ eng.pc = "state"
  /\ eng' = IF ok
              THEN [eng EXCEPT !.states = @ + 1, !.pc = "full"]
              ELSE [eng EXCEPT !.states = @ + 1, !.pc = "returned",
                               !.result = [ok |-> FALSE, text |-> <<>>]]
  /\ UNCHANGED <<serviceVars, rec, req, cb, lk>>

\* lines 50-62: state.full(params, audio_data)?, then the segments are
\* joined and trimmed.
EngineFull(out) ==
  /\ eng.pc = "full"
  /\ eng' = [eng EXCEPT !.fulls = @ + 1, !.pc = "returned",
                        !.result = transcribe(eng.n, out)]
  /\ UNCHANGED <<serviceVars, rec, req, cb, lk>>

\* The caller has the result; the engine can be called again.
EngineReturn ==
  /\ eng.pc = "returned"
  /\ eng.ncalls < MaxCalls
  /\ eng' = [eng EXCEPT !.pc = "ready"]
  /\ UNCHANGED <<serviceVars, rec, req, cb, lk>>

EngineNext ==
  \/ EngineDetect
  \/ EngineGpuLoad
  \/ EngineCpuLoad
  \/ \E n \in SampleCounts : EngineTranscribe(n)
  \/ \E ok \in BOOLEAN : EngineCreateState(ok)
  \/ \E out \in ModelOutputs : EngineFull(out)
  \/ EngineReturn

EngineSpec == EngineInit /\ [][EngineNext]_vars

----------------------------------------------------------------------------
\* recorder.rs: the recorder taken alone.  The flag and the buffer are two
\* mutexes; every step below is one critical section.  The stream callback
\* runs on the audio thread, start_recording and stop_recording on the
\* thread of the key callback, which calls them alternately.

SampleRates == {16000, 48000}
ChannelCounts == {1, 2}

RecorderInit ==
  /\ ServiceInit
  /\ eng = NoEngine
  /\ req = NoRequest
  /\ cb = NoCallbacks
  /\ lk = NoThreads
  /\ \E sample_rate \in SampleRates, channels \in ChannelCounts :
       rec = Recorder("idle", sample_rate, channels)

\* The block the hardware delivers next: BlockLen samples, each with its
\* arrival number and the session during which the callback got it (0
\* before the first).
NextBlock ==
  [i \in 1..BlockLen |->
     [id |-> rec.delivered * BlockLen + i, session |-> rec.session]]

\* lines 40-42: the callback is entered with a block and reads the flag.
StreamCallbackCheck ==
  /\ rec.cb = "idle"
  /\ rec.delivered < MaxDeliveries
  /\ rec' = IF rec.is_recording
              THEN [rec EXCEPT !.delivered = @ + 1, !.cb = "append",
                               !.data = NextBlock]
              ELSE [rec EXCEPT !.delivered = @ + 1]
  /\ UNCHANGED <<serviceVars, eng, req, cb, lk>>

\* lines 43-44: the callback locks the buffer and extends it.
StreamCallbackAppend ==
  /\ rec.cb = "append"
  /\ rec' = [rec EXCEPT !.audio_data = @ \o rec.data, !.cb = "idle",
                        !.data = <<>>]
  /\ UNCHANGED <<serviceVars, eng, req, cb, lk>>

\* line 65
StartRecordingFlag ==
  /\ rec.ctl = "idle"
  /\ rec.session < MaxSessions
  /\ rec' = [rec EXCEPT !.is_recording = TRUE, !.session = @ + 1,
                        !.ctl = "clearing"]
  /\ UNCHANGED <<serviceVars, eng, req, cb, lk>>

\* line 66
StartRecordingClear ==
  /\ rec.ctl = "clearing"
  /\ rec' = [rec EXCEPT !.audio_data = <<>>, !.ctl = "armed"]
  /\ UNCHANGED <<serviceVars, eng, req, cb, lk>>

\* line 71
StopRecordingFlag ==
  /\ rec.ctl = "armed"
  /\ rec' = [rec EXCEPT !.is_recording = FALSE, !.ctl = "cloning"]
  /\ UNCHANGED <<serviceVars, eng, req, cb, lk>>

\* lines 77-97 on a buffer of samples: for every i below new_length whose
\* index is inside the buffer an element is pushed, made of data[index], or
\* of data[index] and data[index + 1] for a stereo device (indices from 0);
\* the result is the sequence of the sets of source samples.
Resample(data, sample_rate, channels) ==
  LET all == [k \in 1..new_length(Len(data), sample_rate) |->
                LET index == SourceIndex(k - 1, sample_rate) IN
                  IF index >= Len(data) THEN {}
                  ELSE IF channels = 2 /\ index + 1 < Len(data)
                    THEN {data[index + 1], data[index + 2]}
                  ELSE {data[index + 1]}]
      Pushed(e) == e # {}
  IN  SelectSeq(all, Pushed)

\* lines 72-97: the buffer is cloned and resampled, and returned.
StopRecordingClone ==
  /\ rec.ctl = "cloning"
  /\ rec' = [rec EXCEPT !.frame = Resample(rec.audio_data, rec.sample_rate,
                                           rec.channels),
                        !.returned = rec.session, !.ctl = "idle"]
  /\ UNCHANGED <<serviceVars, eng, req, cb, lk>>

RecorderNext ==
  \/ StreamCallbackCheck
  \/ StreamCallbackAppend
  \/ StartRecordingFlag
  \/ StartRecordingClear
  \/ StopRecordingFlag
  \/ StopRecordingClone

RecorderSpec == RecorderInit /\ [][RecorderNext]_vars

----------------------------------------------------------------------------
\* recorder.rs, stop_recording taken alone: a recorder that start_recording
\* has armed, whose callback has filled the buffer with whole frames of the
\* device (one sample per channel), is stopped.

ResampleRates == {16000, 44100, 48000}

\* The numbers of frames a recording holds: none, a few, and a long one.
FrameCounts == (0..MaxFrames) \cup {LongBuffer}

\* The buffer after the callback has appended frames frames of a session:
\* sample i is number i of the session (interleaved for a stereo device).
Recorded(frames, channels) ==
  [i \in 1..(frames * channels) |-> [id |-> i, session |-> 1]]

ResampleInit ==
  /\ ServiceInit
  /\ eng = NoEngine
  /\ req = NoRequest
  /\ cb = NoCallbacks
  /\ lk = NoThreads
  /\ \E sample_rate \in ResampleRates, channels \in ChannelCounts,
        frames \in FrameCounts :
       rec = [Recorder("armed", sample_rate, channels) EXCEPT
                !.is_recording = TRUE, !.session = 1,
                !.audio_data = Recorded(frames, channels)]

ResampleNext ==
  \/ StopRecordingFlag
  \/ StopRecordingClone

ResampleSpec == ResampleInit /\ [][ResampleNext]_vars

----------------------------------------------------------------------------
\* commands.rs and config.rs: the configuration commands taken alone, on
\* configurations at and around every limit that validation checks, with
\* initialize and the monitor thread it starts.

ConfigInputs ==
  { BaseConfig,
    [BaseConfig EXCEPT !.hotkey = "Foo"],
    [BaseConfig EXCEPT !.model_path = ""],
    [BaseConfig EXCEPT !.model_path = "missing.bin"],
    [BaseConfig EXCEPT !.sensitivity = 0 - 1],
    [BaseConfig EXCEPT !.sensitivity = 0],
    [BaseConfig EXCEPT !.sensitivity = 1000],
    [BaseConfig EXCEPT !.sensitivity = 1001],
    [BaseConfig EXCEPT !.min_duration = 0],
    [BaseConfig EXCEPT !.min_duration = 0 - 100],
    [BaseConfig EXCEPT !.max_duration = 100],
    [BaseConfig EXCEPT !.max_duration = 50],
    [BaseConfig EXCEPT !.max_duration = 101],
    [BaseConfig EXCEPT !.sample_rate = 7999],
    [BaseConfig EXCEPT !.sample_rate = 8000],
    [BaseConfig EXCEPT !.sample_rate = 48000],
    [BaseConfig EXCEPT !.sample_rate = 48001],
    [BaseConfig EXCEPT !.model_path = "", !.sensitivity = 1500],
    [BaseConfig EXCEPT !.model_path = "missing.bin", !.max_duration = 50],
    [BaseConfig EXCEPT !.sensitivity = 1500, !.max_duration = 50],
    [BaseConfig EXCEPT !.min_duration = 0, !.max_duration = 0],
    [BaseConfig EXCEPT !.max_duration = 50, !.sample_rate = 7999] }

ConfigInit ==
  /\ ServiceInit
  /\ eng = NoEngine
  /\ rec = NoRecorder
  /\ req = NoRequest
  /\ cb = NoCallbacks
  /\ lk = NoThreads

\* save_config(c) is called and returns.
SaveConfigCall(c) ==
  /\ save_voice_config_cmd(c)
  /\ req' = [cmd |-> "save", arg |-> c, out |-> last']
  /\ UNCHANGED <<eng, rec, cb, lk>>

\* commands.rs lines 20-24: get_voice_config returns what load_voice_config
\* reads, which writes the default configuration when there is none to read.
GetConfigCall ==
  /\ file' = LoadedFile
  /\ last' = "ok"
  /\ req' = [cmd |-> "load", arg |-> load_voice_config, out |-> "ok"]
  /\ UNCHANGED <<envVars, state_config, state_processor, state_is_initialized,
                 procVars, recVars, workVars, sendVars, globalVars,
                 sessionVars, monVars, init, eng, rec, cb, lk>>

ConfigNext ==
  \/ \E c \in ConfigInputs : SaveConfigCall(c)
  \/ GetConfigCall
  \/ InitBegin
  \/ InitLoad
  \/ InitNew
  \/ InitStart
  \/ \E m \in Mons : MonitorSetup(m)

ConfigSpec == ConfigInit /\ [][ConfigNext]_vars

----------------------------------------------------------------------------
\* processor.rs: the listen callback step by step.  Every monitor thread
\* runs its own rdev::listen loop, so the callbacks of two monitor threads
\* run side by side; within a callback the test of the armed flag (lines 189
\* and 198) and what follows it are separate critical sections.  The worker
\* is left unscheduled here: frames stay on the queue.


\* A mouse event reaches every listener.
OtherEvent ==
  /\ nEvents < MaxEvents
  /\ InboxRoom
  /\ nEvents' = nEvents + 1
  /\ monitors' = Deliver([type |-> "other", key |-> "none",
                          hold |-> holdSeq, t0 |-> holdStart])
  /\ UNCHANGED <<now, held, holdStart, holdSeq, stateVars, procVars, recVars,
                 workVars, sendVars, globalVars, sessionVars, nMons, init,
                 last>>
  /\ UNCHANGED unitVars

\* lines 143-198: the callback of monitor thread m takes its next event,
\* clones the statics, tests the running flag, clones the configuration,
\* tests enabled, matches the event and tests the armed flag.
CallbackEnter(m) ==
  /\ monitors[m].st = "listening"
  /\ monitors[m].inbox # <<>>
  /\ cb[m].pc = "idle"
  /\ monitors' = [monitors EXCEPT ![m].inbox = Tail(@)]
  /\ LET e == Head(monitors[m].inbox)
         acts == /\ Running
                 /\ Enabled(config[GLOBAL_CONFIG])
                 /\ e.type \in {"press", "release"}
                 /\ Matches(e.key, TARGET_KEY)
         locals == [pc |-> "idle", e |-> e, snapshot |-> config[GLOBAL_CONFIG],
                    r |-> GLOBAL_RECORDER, tx |-> GLOBAL_TX]
     IN
       /\ last' = IF ~Running THEN "callback: not running"
                  ELSE IF ~Enabled(config[GLOBAL_CONFIG]) THEN "callback: disabled"
                  ELSE IF e.type = "other" THEN "callback: other event"
                  ELSE IF ~Matches(e.key, TARGET_KEY) THEN "callback: other key"
                  ELSE "callback: trigger key"
       /\ cb' = IF acts /\ e.type = "press" /\ ~is_recording[GLOBAL_RECORDER]
                  THEN [cb EXCEPT ![m] = [locals EXCEPT !.pc = "arming"]]
                ELSE IF acts /\ e.type = "release" /\ is_recording[GLOBAL_RECORDER]
                  THEN [cb EXCEPT ![m] = [locals EXCEPT !.pc = "stopping"]]
                ELSE cb
  /\ UNCHANGED <<envVars, stateVars, procVars, recVars, workVars, sendVars,
                 globalVars, sessionVars, nMons, init, eng, rec, req, lk>>

\* lines 190-191: the start time is stored and the recorder is armed.
CallbackArm(m) ==
  /\ cb[m].pc = "arming"
  /\ RECORDING_START_TIME' = now
  /\ session_min' = cb[m].snapshot.min_duration
  /\ is_recording' = [is_recording EXCEPT ![cb[m].r] = TRUE]
  /\ audio_data' = [audio_data EXCEPT ![cb[m].r] = <<>>]
  /\ cb' = [cb EXCEPT ![m] = [pc |-> "idle"]]
  /\ UNCHANGED <<envVars, stateVars, procVars, workVars, sendVars, globalVars,
                 monVars, init, last, eng, rec, req, lk>>

\* lines 200-215, under the lock of RECORDING_START_TIME: stop_recording,
\* and the frame is sent if the session is long enough.
CallbackStop(m) ==
  /\ cb[m].pc = "stopping"
  /\ is_recording' = [is_recording EXCEPT ![cb[m].r] = FALSE]
  /\ IF /\ RECORDING_START_TIME # NoTime
        /\ LongEnough(RECORDING_START_TIME)
        /\ Accepted(Frame(cb[m].r, cb[m].e).len, cb[m].snapshot)
       THEN /\ chan' = [chan EXCEPT ![cb[m].tx] = Append(@, Frame(cb[m].r, cb[m].e))]
            /\ nFrames' = nFrames + 1
       ELSE UNCHANGED sendVars
  /\ cb' = [cb EXCEPT ![m].pc = "clearing"]
  /\ UNCHANGED <<envVars, stateVars, procVars, audio_data, workVars,
                 globalVars, sessionVars, monVars, init, last, eng, rec, req,
                 lk>>

\* line 217: the start time is cleared.
CallbackClear(m) ==
  /\ cb[m].pc = "clearing"
  /\ RECORDING_START_TIME' = NoTime
  /\ session_min' = None
  /\ cb' = [cb EXCEPT ![m] = [pc |-> "idle"]]
  /\ UNCHANGED <<envVars, stateVars, procVars, recVars, workVars, sendVars,
                 globalVars, monVars, init, last, eng, rec, req, lk>>

HoldNext ==
  \/ Tick
  \/ \E k \in Keys : KeyPress(k)
  \/ KeyRelease
  \/ OtherEvent
  \/ SaveConfig([BaseConfig EXCEPT !.max_duration = 600])
  \/ InitBegin
  \/ InitLoad
  \/ InitNew
  \/ InitStart
  \/ StartCmd
  \/ StopCmd
  \/ \E m \in Mons : MonitorSetup(m)
  \/ \E m \in Mons : CallbackEnter(m)
  \/ \E m \in Mons : CallbackArm(m)
  \/ \E m \in Mons : CallbackStop(m)
  \/ \E m \in Mons : CallbackClear(m)
  \/ \E p \in Procs : AudioCallback(p)

HoldSpec == Init /\ [][HoldNext]_vars

----------------------------------------------------------------------------
\* The trigger key: configurations that differ in their hotkey are saved
\* while the service is initialized and started and keys are pressed.

HotkeyNext ==
  \/ \E k \in Keys : KeyPress(k)
  \/ KeyRelease
  \/ \E c \in {BaseConfig, [BaseConfig EXCEPT !.hotkey = "F3"]} : SaveConfig(c)
  \/ InitBegin
  \/ InitLoad
  \/ InitNew
  \/ InitStart
  \/ \E m \in Mons : MonitorSetup(m)
  \/ \E m \in Mons : Callback(m)

HotkeySpec == Init /\ [][HotkeyNext]_vars

----------------------------------------------------------------------------
\* The locks taken alone.  Every parking_lot mutex the handlers take is a
\* lock here: VOICE_STATE (mod.rs:40), its configuration (mod.rs:18), and of
\* the installed processor and its recorder the configuration, the running
\* flag (processor.rs:14-16), the armed flag and the sample buffer
\* (recorder.rs:8-9), and the session start time (processor.rs:128).  A
\* handler is the sequence of its lock operations and of the calls it makes
\* to the file system, the audio hardware, the model and the keyboard of the
\* active window, in program order, on its longest path; a guard that is a
\* temporary of one statement is taken and dropped in one step, as every
\* guard of a configuration is (it is cloned or assigned in the statement
\* that locks it); a guard that is bound, or that is the scrutinee of an
\* if let, is held until the end of its block.  The statics
\* GLOBAL_RECORDER, GLOBAL_TX, GLOBAL_CONFIG, GLOBAL_IS_RUNNING and
\* TARGET_KEY are each locked for one statement with no other lock held,
\* and are left out.

\* An operation is <<"lock", l>> (a guard of mutex l is bound),
\* <<"unlock", l>> (it is dropped), <<"touch", l>> (l is locked for one
\* statement) or <<"io", kind>> (a call outside the process).

\* commands.rs lines 21-24: get_voice_config
get_voice_config_locks == << <<"io", "file">> >>

\* commands.rs lines 40-53: save_voice_config_cmd, with a processor installed
save_voice_config_cmd_locks ==
  << <<"io", "file">>,
    <<"lock", "VOICE_STATE">>,
    <<"touch", "state.config">>,
    <<"touch", "processor.config">>,
    <<"unlock", "VOICE_STATE">> >>

\* commands.rs lines 61-95 with VoiceProcessor::new and start
initialize_voice_recognition_locks ==
  << <<"lock", "VOICE_STATE">>, <<"touch", "is_running">>, <<"unlock", "VOICE_STATE">>,
    <<"io", "file">>, <<"io", "hardware">>, <<"io", "model">>,
    <<"lock", "VOICE_STATE">>,
    <<"touch", "state.config">>,
    <<"unlock", "VOICE_STATE">>,
    <<"lock", "VOICE_STATE">>, <<"touch", "is_running">>, <<"unlock", "VOICE_STATE">> >>

\* commands.rs lines 107-117 and 121-130: start_voice_recognition and
\* stop_voice_recognition
start_stop_locks ==
  << <<"lock", "VOICE_STATE">>, <<"touch", "is_running">>, <<"unlock", "VOICE_STATE">> >>

\* commands.rs lines 134-153 with get_audio_level (recorder.rs:104-120)
get_voice_status_locks ==
  << <<"lock", "VOICE_STATE">>, <<"touch", "is_running">>, <<"touch", "audio_data">>,
    <<"unlock", "VOICE_STATE">> >>

\* processor.rs line 132: the monitor thread clones the configuration
monitor_setup_locks ==
  << <<"touch", "processor.config">> >>

\* processor.rs lines 172-191: the callback on a press of the trigger key
on_press_locks ==
  << <<"touch", "is_running">>,
    <<"touch", "processor.config">>,
    <<"touch", "is_recording">>,
    <<"touch", "RECORDING_START_TIME">>,
    <<"io", "hardware">>, <<"touch", "is_recording">>, <<"touch", "audio_data">> >>

\* A release branch that clears the start time inside the if let, while
\* the guard of its scrutinee is held.
on_release_locks_ClearsInside ==
  << <<"touch", "is_running">>,
    <<"touch", "processor.config">>,
    <<"touch", "is_recording">>,
    <<"lock", "RECORDING_START_TIME">>,
    <<"io", "hardware">>, <<"touch", "is_recording">>, <<"touch", "audio_data">>,
    <<"touch", "RECORDING_START_TIME">>,
    <<"unlock", "RECORDING_START_TIME">> >>

\* processor.rs lines 172-217: the callback on a release of the trigger
\* key; the guard of line 200 is held to the end of the if let
on_release_locks ==
  << <<"touch", "is_running">>,
    <<"touch", "processor.config">>,
    <<"touch", "is_recording">>,
    <<"lock", "RECORDING_START_TIME">>,
    <<"io", "hardware">>, <<"touch", "is_recording">>, <<"touch", "audio_data">>,
    <<"unlock", "RECORDING_START_TIME">>,
    <<"touch", "RECORDING_START_TIME">> >>

\* recorder.rs lines 40-46: the input stream callback
stream_callback_locks == << <<"touch", "is_recording">>, <<"touch", "audio_data">> >>

\* A worker that keeps the guard of the configuration while it transcribes.
transcription_loop_locks_HoldsGuard ==
  << <<"lock", "processor.config">>, <<"io", "inference">>, <<"unlock", "processor.config">>,
    <<"io", "inject">> >>

\* processor.rs lines 273-295: one iteration of the worker
transcription_loop_locks ==
  << <<"touch", "processor.config">>,
    <<"io", "inference">>, <<"io", "inject">> >>

\* The handlers a thread may run.
Handlers(t) ==
  IF t \in {"command1", "command2"}
    THEN {get_voice_config_locks, save_voice_config_cmd_locks,
          initialize_voice_recognition_locks, start_stop_locks,
          get_voice_status_locks}
  ELSE IF t \in {"monitor1", "monitor2"}
    THEN {monitor_setup_locks, on_press_locks, on_release_locks}
  ELSE IF t = "audio" THEN {stream_callback_locks}
  ELSE {transcription_loop_locks}

\* The thread that holds lock l, if any.
Holders(l) == {t \in Threads : l \in lk[t].held}

\* Thread t enters a handler.  A callback or loop iteration whose first
\* statement locks a mutex for that statement alone is entered with that
\* statement: the thread has no state of its own before it.
ThreadBegin(t) ==
  /\ lk[t].ops = <<>>
  /\ \E h \in Handlers(t) :
       IF Head(h)[1] = "touch"
         THEN /\ Holders(Head(h)[2]) = {}
              /\ lk' = [lk EXCEPT ![t].ops = Tail(h)]
         ELSE lk' = [lk EXCEPT ![t].ops = h]
  /\ UNCHANGED <<serviceVars, eng, rec, req, cb>>

\* Mutex::lock returns once no thread holds the mutex (parking_lot mutexes
\* are not reentrant).
ThreadLock(t) ==
  /\ lk[t].ops # <<>>
  /\ Head(lk[t].ops)[1] = "lock"
  /\ Holders(Head(lk[t].ops)[2]) = {}
  /\ lk' = [lk EXCEPT ![t].ops = Tail(@),
                      ![t].held = @ \cup {Head(lk[t].ops)[2]}]
  /\ UNCHANGED <<serviceVars, eng, rec, req, cb>>

\* The guard is dropped.
ThreadUnlock(t) ==
  /\ lk[t].ops # <<>>
  /\ Head(lk[t].ops)[1] = "unlock"
  /\ lk' = [lk EXCEPT ![t].ops = Tail(@),
                      ![t].held = @ \ {Head(lk[t].ops)[2]}]
  /\ UNCHANGED <<serviceVars, eng, rec, req, cb>>

\* A statement that locks a mutex for its own duration.
ThreadTouch(t) ==
  /\ lk[t].ops # <<>>
  /\ Head(lk[t].ops)[1] = "touch"
  /\ Holders(Head(lk[t].ops)[2]) = {}
  /\ lk' = [lk EXCEPT ![t].ops = Tail(@)]
  /\ UNCHANGED <<serviceVars, eng, rec, req, cb>>

\* A call to the file system, the hardware, the model or the keyboard
\* returns.
ThreadIo(t) ==
  /\ lk[t].ops # <<>>
  /\ Head(lk[t].ops)[1] = "io"
  /\ lk' = [lk EXCEPT ![t].ops = Tail(@)]
  /\ UNCHANGED <<serviceVars, eng, rec, req, cb>>

LockNext ==
  \E t \in Threads :
    \/ ThreadBegin(t)
    \/ ThreadLock(t)
    \/ ThreadUnlock(t)
    \/ ThreadTouch(t)
    \/ ThreadIo(t)

LockSpec == Init /\ [][LockNext]_vars

----------------------------------------------------------------------------
\* Properties

\* The frames waiting in some channel.
Queued == UNION { { chan[p][i] : i \in 1..Len(chan[p]) } : p \in Procs }

\* This step is the listen callback of monitor thread m on its next event.
HandledBy(m) ==
  /\ monitors[m].st = "listening"
  /\ monitors[m].inbox # <<>>
  /\ monitors'[m].inbox = Tail(monitors[m].inbox)

Event(m) == Head(monitors[m].inbox)

\* The samples stop_recording would return for the recorder of the statics.
Captured ==
  (RawLen(GLOBAL_RECORDER) * 16000) \div device[GLOBAL_RECORDER].sample_rate

NotInitialized ==
  {"Voice recognition not initialized. Call initialize_voice_recognition first.",
   "Voice recognition not initialized."}

\* C1: a session whose trigger-key release arrives less than 500 ms after its
\* press never puts a frame on the queue: every queued frame was sent at a
\* release that came at least 500 ms after the press of the same hold.
C1_ShortHoldNeverQueued == \A f \in Queued : f.held_ms >= FloorMs

\* C2, as stated: the 500 ms floor is the only condition on emitting.  Whenever
\* the release of the trigger key is handled with the service running and
\* enabled, the recorder armed, the session at least 500 ms old and some audio
\* captured, a frame is sent.
C2_FloorIsOnlyCondition ==
  [][\A m \in Mons :
       ( /\ HandledBy(m)
         /\ Event(m).type = "release" /\ Event(m).key = TARGET_KEY
         /\ Running /\ config[GLOBAL_CONFIG].enabled
         /\ is_recording[GLOBAL_RECORDER]
         /\ RECORDING_START_TIME # NoTime
         /\ now - RECORDING_START_TIME >= 500
         /\ Captured > 0 )
       => nFrames' = nFrames + 1]_vars

\* C2, amended: when the release of the trigger key is handled with the
\* service running and enabled and the recorder armed, a frame is sent if and
\* only if the session is at least 500 ms old and the captured audio is not
\* empty and not shorter than the configured minimum duration; the frame sent
\* is the captured audio, appended to the queue of the statics.
C2_EmitsIffFloorAndMinimum ==
  [][\A m \in Mons :
       ( /\ HandledBy(m)
         /\ Event(m).type = "release" /\ Event(m).key = TARGET_KEY
         /\ Running /\ config[GLOBAL_CONFIG].enabled
         /\ is_recording[GLOBAL_RECORDER] )
       => IF /\ RECORDING_START_TIME # NoTime
             /\ now - RECORDING_START_TIME >= 500
             /\ Captured > 0
             /\ Captured * 1000 >= config[GLOBAL_CONFIG].min_duration * 16000
            THEN /\ nFrames' = nFrames + 1
                 /\ Len(chan'[GLOBAL_TX]) = Len(chan[GLOBAL_TX]) + 1
                 /\ chan'[GLOBAL_TX][Len(chan'[GLOBAL_TX])].len = Captured
            ELSE UNCHANGED <<chan, nFrames>>]_vars

\* A hold of at least 500 ms has put a frame on the queue, and a configured
\* minimum of one second is in force.
C2_Witness ==
  /\ \E f \in Queued : f.held_ms >= FloorMs /\ f.len > 0
  /\ GLOBAL_CONFIG # None
  /\ config[GLOBAL_CONFIG].min_duration = 1000

\* C3: while the configuration the callback reads has enabled = false, a key
\* event handled by a monitor thread changes nothing: the recorder is not
\* armed or disarmed, no session start time is set, no frame is sent.
C3_DisabledIgnoresKeys ==
  [][\A m \in Mons :
       ( /\ HandledBy(m)
         /\ GLOBAL_CONFIG # None
         /\ ~config[GLOBAL_CONFIG].enabled )
       => UNCHANGED <<is_recording, audio_data, RECORDING_START_TIME, chan,
                      nFrames>>]_vars

\* The press of the trigger key has been handled with the service running and
\* the configuration disabled; the key is still down and nothing is armed.
C3_Witness ==
  /\ last = "callback: disabled"
  /\ held = TARGET_KEY
  /\ \A m \in Mons : monitors[m].inbox = <<>>
  /\ is_running[GLOBAL_IS_RUNNING]
  /\ ~config[GLOBAL_CONFIG].enabled
  /\ ~is_recording[GLOBAL_RECORDER]
  /\ RECORDING_START_TIME = NoTime

\* C4: every transcribe call in progress was made by the worker thread of the
\* processor that owns the engine, which is inside its transcribe step; no
\* two constructed processors own the same engine, and no two calls in
\* progress are on the same engine.
C4_EngineOnlyFromItsWorker ==
  /\ \A c \in calls :
       /\ c.caller[1] = "worker"
       /\ c.caller[2] \in 1..nProcs
       /\ transcriber[c.caller[2]] = c.engine
       /\ worker[c.caller[2]].pc = "transcribing"
  /\ \A p, q \in 1..nProcs : transcriber[p] = transcriber[q] => p = q
  /\ \A c, d \in calls : c.engine = d.engine => c = d

\* After a re-initialization the worker of the replaced processor is inside
\* transcribe.
C4_Witness ==
  \E c \in calls : state_processor # None /\ c.caller[2] # state_processor

\* C5: the worker takes frames in the order they were sent.  Frames are
\* numbered as they are sent; the frames waiting in a queue are in increasing
\* order and all later than the last frame the worker took, and the frame a
\* worker is transcribing is the last one it took, so a frame is taken only
\* after every earlier frame of its queue has been taken and processed.
C5_FifoOrder ==
  \A p \in Procs :
    /\ \A i \in 1..Len(chan[p]) : chan[p][i].id > lastTaken[p]
    /\ \A i, j \in 1..Len(chan[p]) : i < j => chan[p][i].id < chan[p][j].id
    /\ worker[p].pc = "transcribing" => worker[p].frame = lastTaken[p]

\* A worker is transcribing the first frame while the second waits in its
\* queue.
C5_Witness ==
  \E p \in Procs :
    /\ worker[p].pc = "transcribing"
    /\ chan[p] # <<>>
    /\ chan[p][1].id > worker[p].frame

\* C6: every frame on a queue is eventually taken by the worker of that
\* queue, whatever stop, save_config or initialize calls follow.
C6_QueuedFrameIsTaken ==
  \A p \in Procs : \A i \in 1..(MaxEvents \div 2) :
    (\E k \in 1..Len(chan[p]) : chan[p][k].id = i) ~> (lastTaken[p] = i)

\* A frame waits on the queue of a processor that has been replaced.
C6_Witness ==
  \E p \in Procs :
    /\ chan[p] # <<>>
    /\ state_processor # None
    /\ state_processor # p

\* C7: start() on a processor that is already running spawns no monitor
\* thread.
C7_StartTwiceSpawnsNothing ==
  [][\A m \in Mons :
       (monitors[m].st = "none" /\ monitors'[m].st = "spawned")
       => ~is_running[monitors'[m].proc]]_vars

\* C8: when initialize returns success the status is initialized and running,
\* and every monitor thread that is listening was spawned for the processor
\* just installed.
C8_InitializeDiscardsOldMonitor ==
  [][(init.pc = "installed" /\ init'.pc = "idle")
     => /\ state_is_initialized'
        /\ state_processor' # None
        /\ is_running'[state_processor']
        /\ \A m \in Mons : monitors'[m].st = "listening"
                             => monitors'[m].proc = state_processor']_vars

\* C9: start and stop, called when no initialize has succeeded, return the
\* not-initialized error and change nothing else; the status stays
\* initialized = false, running = false, and no monitor thread exists.
C9_NotInitializedChangesNothing ==
  [][(state_processor = None /\ (StartCmd \/ StopCmd))
     => /\ last' \in NotInitialized
        /\ UNCHANGED <<envVars, stateVars, procVars, recVars, workVars,
                       sendVars, globalVars, RECORDING_START_TIME, monVars,
                       init>>
        /\ ~state_is_initialized' /\ state_processor' = None
        /\ \A p \in Procs : ~is_running'[p]
        /\ nMons' = 0]_vars

\* start has been refused before any initialize succeeded.
C9_Witness ==
  /\ last = "Voice recognition not initialized. Call initialize_voice_recognition first."
  /\ ~state_is_initialized
  /\ state_processor = None
  /\ nMons = 0

\* Some monitor thread was spawned by a start() that restarted a stopped
\* processor.
Restarted == \E m \in Mons : monitors[m].restart

C11_StopOnlyClearsFlag ==
  [][(state_processor # None /\ (StopCmd \/ InitBegin))
     => /\ is_running' = [is_running EXCEPT ![state_processor] = FALSE]
        /\ UNCHANGED <<is_recording, audio_data, RECORDING_START_TIME, chan,
                       nFrames, worker, calls>>]_vars

\* The service has been stopped with a recording in progress and a frame on
\* the queue; both are still there.
C11_Witness ==
  /\ state_processor # None
  /\ init.pc = "idle"
  /\ ~is_running[state_processor]
  /\ is_recording[state_processor]
  /\ RECORDING_START_TIME # NoTime
  /\ chan[state_processor] # <<>>

\* C12: when the release of the trigger key is handled with the service
\* running, the recorder armed, the session at least 500 ms old and the
\* captured audio accepted, but the configuration disabled in the meantime,
\* the session still ends and its frame is sent.
C12_DisabledMidSessionStillEnqueues ==
  [][\A m \in Mons :
       ( /\ HandledBy(m)
         /\ Event(m).type = "release" /\ Event(m).key = TARGET_KEY
         /\ Running /\ ~config[GLOBAL_CONFIG].enabled
         /\ is_recording[GLOBAL_RECORDER]
         /\ RECORDING_START_TIME # NoTime
         /\ now - RECORDING_START_TIME >= 500
         /\ Captured > 0
         /\ Captured * 1000 >= config[GLOBAL_CONFIG].min_duration * 16000 )
       => /\ nFrames' = nFrames + 1
          /\ ~is_recording'[GLOBAL_RECORDER]]_vars

\* C13: a session keeps the configuration of its start for its duration
\* decision.  When the release of the trigger key is handled with the
\* service running and enabled, the recorder armed, the session at least
\* 500 ms old and some audio captured, the frame is sent exactly if it is
\* not shorter than the minimum duration that was configured when the
\* session started.
C13_SessionKeepsStartSnapshot ==
  [][\A m \in Mons :
       ( /\ HandledBy(m)
         /\ Event(m).type = "release" /\ Event(m).key = TARGET_KEY
         /\ Running /\ config[GLOBAL_CONFIG].enabled
         /\ is_recording[GLOBAL_RECORDER]
         /\ RECORDING_START_TIME # NoTime
         /\ now - RECORDING_START_TIME >= 500
         /\ Captured > 0
         /\ session_min # None )
       => (nFrames' = nFrames + 1 <=> Captured * 1000 >= session_min * 16000)]_vars

\* C14: no failure of one utterance ends a worker.  A worker that is inside
\* transcribe, logging its error or sending text goes on with the loop and
\* from the last two back to recv; a worker exits only from recv, with its
\* channel empty and every sender gone.
C14_WorkerSurvivesFailures ==
  [][\A p \in Procs :
       /\ (worker[p].pc = "transcribing" /\ worker'[p] # worker[p])
            => worker'[p].pc \in {"typing", "failed", "recv"}
       /\ (worker[p].pc \in {"failed", "typing"} /\ worker'[p] # worker[p])
            => worker'[p].pc = "recv"
       /\ (worker[p].pc # "exited" /\ worker'[p].pc = "exited")
            => /\ worker[p].pc = "recv"
               /\ chan[p] = <<>>
               /\ state_processor # p /\ GLOBAL_TX # p]_vars

\* transcribe has returned an error to a worker while the next frame waits
\* in its queue.
C14_Witness ==
  \E p \in Procs :
    /\ worker[p].pc = "failed"
    /\ ~worker[p].result.ok
    /\ chan[p] # <<>>

\* C15, as stated: a worker thread never terminates.
C15_WorkerNeverTerminates ==
  \A p \in Procs : worker[p].pc # "exited"

\* C15, amended: every constructed processor has exactly one worker thread,
\* started with it, and a worker has terminated only if its processor has
\* been replaced, the statics hold the sender of another processor, no
\* monitor thread is about to store its sender, and its queue is empty.
C15_WorkerExitsOnlyWhenDisconnected ==
  \A p \in Procs :
    /\ (p <= nProcs) <=> (worker[p].pc # "none")
    /\ worker[p].pc = "exited"
         => /\ state_processor # p
            /\ GLOBAL_TX # p
            /\ \A m \in Mons : ~(monitors[m].st = "spawned" /\ monitors[m].proc = p)
            /\ chan[p] = <<>>

\* The worker of a replaced processor has terminated after taking a frame.
C15_Witness ==
  \E p \in Procs :
    /\ worker[p].pc = "exited"
    /\ lastTaken[p] > 0
    /\ state_processor # p

\* C18: a worker is inside transcribe, logging or sending text only for a
\* frame that is not shorter than the minimum duration of the snapshot it
\* took with the frame; it sends text only after transcribe returned success
\* with text that is not blank; and taking a frame shorter than the
\* configured minimum starts no transcribe call and leaves the worker at recv.
C18_InjectOnlyAcceptedText ==
  [][\A p \in Procs :
       /\ worker'[p].pc \in {"transcribing", "failed", "typing"}
            => worker'[p].len * 1000 >= worker'[p].snapshot.min_duration * 16000
       /\ worker'[p].pc = "typing"
            => /\ worker'[p].result.ok
               /\ \E i \in 1..Len(worker'[p].result.text) :
                    worker'[p].result.text[i] # " "
       /\ ( /\ lastTaken'[p] # lastTaken[p]
            /\ chan[p][1].len * 1000 < config[p].min_duration * 16000 )
            => /\ calls' = calls
               /\ worker'[p] = worker[p]]_vars

\* A worker is sending the text of a frame it accepted under a snapshot with
\* a minimum of 100 ms, while the configuration has since been updated to
\* ask for one second.
C18_Witness ==
  \E p \in Procs :
    /\ worker[p].pc = "typing"
    /\ worker[p].snapshot.min_duration = 100
    /\ config[p].min_duration = 1000

\* C19: a press of the trigger key handled while the recorder is armed
\* changes neither the armed flag, the session start time nor the buffer and
\* sends nothing; a release handled while the recorder is armed disarms it
\* and clears the start time.
C19_PressWhileArmedIsIgnored ==
  [][\A m \in Mons :
       ( /\ HandledBy(m)
         /\ Event(m).key = TARGET_KEY
         /\ Running /\ config[GLOBAL_CONFIG].enabled
         /\ is_recording[GLOBAL_RECORDER] )
       => IF Event(m).type = "press"
            THEN UNCHANGED <<is_recording, audio_data, RECORDING_START_TIME,
                             chan, nFrames>>
            ELSE /\ ~is_recording'[GLOBAL_RECORDER]
                 /\ RECORDING_START_TIME' = NoTime
                 /\ \A r \in Procs : r # GLOBAL_RECORDER
                      => is_recording'[r] = is_recording[r]]_vars

\* The repeated press of a held trigger key has been handled a tick after
\* the press that armed the recorder; the start time and the buffer are
\* those of that press.
C19_Witness ==
  /\ nMons = 1
  /\ nEvents = 2 /\ holdSeq = 1
  /\ held = TARGET_KEY
  /\ \A m \in Mons : monitors[m].inbox = <<>>
  /\ last = "callback: trigger key"
  /\ is_recording[GLOBAL_RECORDER]
  /\ audio_data[GLOBAL_RECORDER] # <<>>
  /\ RECORDING_START_TIME = holdStart
  /\ now > RECORDING_START_TIME

\* C16: the constructor of the engine ends in an error only after a CPU load
\* that failed; it makes a GPU load only if the GPU is preferred and a GPU
\* capability was detected; it makes each load at most once, and a GPU load
\* that failed is followed by the CPU load; a model that loads yields an
\* engine, and with the GPU preferred but no capability detected that engine
\* is in CPU mode and no GPU load was made.
C16_ErrorOnlyWhenCpuLoadFails ==
  LET has_gpu == eng.cuda \/ eng.metal \/ eng.opencl
      built == eng.pc \notin {"none", "new", "gpu", "cpu"}
  IN  /\ eng.pc = "error" => (eng.cpu_loads = 1 /\ ~eng.model_ok)
      /\ eng.gpu_loads > 0 => (eng.prefer_gpu /\ has_gpu)
      /\ eng.gpu_loads <= 1 /\ eng.cpu_loads <= 1
      /\ (built /\ eng.gpu_loads = 1 /\ eng.mode # "GPU (CUDA)")
           => eng.cpu_loads = 1
      /\ (built /\ eng.model_ok) => eng.pc # "error"
      /\ (built /\ eng.prefer_gpu /\ ~has_gpu /\ eng.model_ok)
           => (eng.mode = "CPU" /\ eng.gpu_loads = 0)

\* The GPU was preferred and detected, its load failed, and the engine stands
\* in CPU mode.
C16_Witness ==
  /\ eng.pc = "ready"
  /\ eng.prefer_gpu
  /\ eng.gpu_loads = 1 /\ eng.cpu_loads = 1
  /\ eng.mode = "CPU"

\* C17: a transcribe call on fewer than 1600 samples has returned the empty
\* string with success, having created no whisper state and run no
\* inference; a call on 1600 samples or more enters the model once: it
\* creates one state, runs at most one inference, and returns text only
\* after exactly one inference.
C17_ShortInputSkipsModel ==
  eng.pc \in {"state", "full", "returned"} =>
    IF eng.n < 1600
      THEN /\ eng.pc = "returned"
           /\ eng.result = [ok |-> TRUE, text |-> <<>>]
           /\ eng.states = 0 /\ eng.fulls = 0
      ELSE /\ eng.states <= 1 /\ eng.fulls <= 1
           /\ eng.pc \in {"full", "returned"} => eng.states = 1
           /\ eng.pc = "returned" => (eng.fulls = 1 \/ ~eng.result.ok)

\* The second call on an engine was given 1599 samples and has returned.
C17_Witness ==
  /\ eng.pc = "returned"
  /\ eng.ncalls = 2
  /\ eng.n = 1599

\* C20: the frame stop_recording returned holds only samples the callback
\* got during the session that stop_recording ended, in arrival order.
C20_FrameHoldsOnlyItsSession ==
  rec.returned > 0 =>
    /\ \A k \in 1..Len(rec.frame) :
         \A s \in rec.frame[k] : s.session = rec.returned
    /\ \A j, k \in 1..Len(rec.frame) :
         j < k => \A s \in rec.frame[j], t \in rec.frame[k] : s.id <= t.id

\* The call of save_config that has just returned, if this step is one.
Saved == req' # req /\ req'.cmd = "save"

\* C21: a save_config whose argument fails validation returns the error of
\* the validation and leaves the configuration file, VOICE_STATE.config and
\* the configuration of every processor as they were.
C21_FailedSaveChangesNothing ==
  [][(Saved /\ validate_voice_config(req'.arg) # "ok")
       => /\ req'.out = validate_voice_config(req'.arg)
          /\ UNCHANGED <<file, state_config, config>>]_vars

\* A save_config has failed on a sensitivity of 1.001 while a started
\* processor runs with the configuration that was saved before.
C21_Witness ==
  /\ req.cmd = "save" /\ req.out # "ok"
  /\ req.arg.sensitivity = 1001
  /\ state_processor # None /\ is_running[state_processor]
  /\ config[state_processor] = BaseConfig
  /\ state_config = BaseConfig
  /\ file = <<to_string_pretty(BaseConfig)>>

\* C22: save_config returns without error exactly for the configurations
\* with a model path that is set and exists, a sensitivity from 0 to 1, a
\* positive minimum duration, a maximum duration above the minimum and a
\* sample rate from 8000 to 48000.
C22_AcceptsExactlyValid ==
  req.cmd = "save" =>
    ( req.out = "ok" <=>
        /\ req.arg.model_path # "" /\ req.arg.model_path \in ExistingPaths
        /\ 0 <= req.arg.sensitivity /\ req.arg.sensitivity <= 1000
        /\ req.arg.min_duration > 0
        /\ req.arg.max_duration > req.arg.min_duration
        /\ 8000 <= req.arg.sample_rate /\ req.arg.sample_rate <= 48000 )

\* A configuration with the lowest sample rate allowed has been saved.
C22_Witness ==
  /\ req.cmd = "save" /\ req.out = "ok"
  /\ req.arg.sample_rate = 8000

\* C23, as stated: every save_config with a sensitivity out of range returns
\* the sensitivity message, and every save_config with a maximum duration
\* not above the minimum returns the maximum-duration message.
C23_MessageForEveryConfig ==
  req.cmd = "save" =>
    /\ (req.arg.sensitivity < 0 \/ req.arg.sensitivity > 1000)
         => req.out = "Sensitivity must be between 0.0 and 1.0"
    /\ req.arg.max_duration <= req.arg.min_duration
         => req.out = "Maximum duration must be greater than minimum duration"

\* C23, amended: every such save_config fails, with the message of the first
\* check that fails in the order model path, sensitivity, minimum duration,
\* maximum duration: the sensitivity message exactly when the model path is
\* set and exists and the sensitivity is out of range, the maximum-duration
\* message exactly when model path and sensitivity pass, the minimum is
\* positive and the maximum is not above it.
C23_MessageOfFirstFailedCheck ==
  req.cmd = "save" =>
    LET path_ok == req.arg.model_path # "" /\ req.arg.model_path \in ExistingPaths
        sens_bad == req.arg.sensitivity < 0 \/ req.arg.sensitivity > 1000
        max_bad == req.arg.max_duration <= req.arg.min_duration
    IN  /\ (sens_bad \/ max_bad) => req.out # "ok"
        /\ req.out = "Sensitivity must be between 0.0 and 1.0"
             <=> (path_ok /\ sens_bad)
        /\ req.out = "Maximum duration must be greater than minimum duration"
             <=> (path_ok /\ ~sens_bad /\ req.arg.min_duration > 0 /\ max_bad)

\* A configuration with a sensitivity of 1.5 and a maximum duration below
\* the minimum has been turned away with the sensitivity message.
C23_Witness ==
  /\ req.cmd = "save"
  /\ req.arg.sensitivity = 1500 /\ req.arg.max_duration = 50
  /\ req.arg.model_path = "model.bin"
  /\ req.out = "Sensitivity must be between 0.0 and 1.0"

\* C25: a load_config that follows a successful save_config(c), with
\* initializations in between or not, returns c.
C25_SaveThenLoadReturnsSaved ==
  [][(req.cmd = "save" /\ req.out = "ok" /\ req'.cmd = "load")
       => req'.arg = req.arg]_vars

\* load_config has returned a configuration with a sensitivity of 1.0 and
\* the file holds the text 1.0 for it.
C25_Witness ==
  /\ req.cmd = "load"
  /\ req.arg = [BaseConfig EXCEPT !.sensitivity = 1000]
  /\ file # <<>> /\ file[1].sensitivity = <<"1", ".", "0">>

\* C26: no save_config succeeds on a configuration whose hotkey
\* parse_hotkey does not know, and no monitor thread resolves its trigger
\* key from such a configuration.
C26_UnknownHotkeyIsRejected ==
  [][/\ (Saved /\ parse_hotkey(req'.arg.hotkey) = "") => req'.out # "ok"
     /\ \A m \in Mons :
          (monitors[m].st = "spawned" /\ monitors'[m].st = "listening")
            => parse_hotkey(config[monitors[m].proc].hotkey) # ""]_vars

\* C24: a save_config that succeeds leaves the file, VOICE_STATE.config and
\* the configuration of the installed processor equal to its argument, and
\* from then on every key event that reaches the enabled gate and every
\* frame a worker takes is decided with the configuration the file holds.
C24_SavedConfigDecides ==
  [][/\ (init' = init /\ <<file, state_config>>' # <<file, state_config>>)
          => /\ file' = <<to_string_pretty(state_config')>>
             /\ state_processor # None
                  => config'[state_processor] = state_config'
     /\ \A m \in Mons :
          (HandledBy(m) /\ Running /\ file # <<>>)
            => config[GLOBAL_CONFIG] = load_voice_config
     /\ \A p \in Procs :
          (lastTaken'[p] # lastTaken[p] /\ file # <<>>)
            => config[p] = load_voice_config]_vars


\* The source frame (from 0) that a sample of the buffer belongs to.
FrameOf(s, channels) == (s.id - 1) \div channels

\* C27: stopping a 48000 Hz recording whose buffer holds N samples returns
\* floor(N * 16000 / 48000) samples, for every N from 0 on (hence within
\* one sample of that number).
C27_ThirdOfTheSamples ==
  (rec.returned > 0 /\ rec.sample_rate = 48000)
    => Len(rec.frame) = (Len(rec.audio_data) * TargetRate) \div 48000

\* A 48000 Hz mono recording of 4000 samples was stopped and 1333 samples
\* came back.
C27_Witness ==
  /\ rec.returned > 0
  /\ rec.sample_rate = 48000 /\ rec.channels = 1
  /\ Len(rec.audio_data) = 4000
  /\ Len(rec.frame) = 1333

\* C28: on a mono device, output sample i of stop_recording is the source
\* sample at floor(i * sample_rate / 16000), every such index is inside the
\* buffer, one sample is pushed for every i below the new length, and the
\* recording flag is cleared.
C28_MonoPicksFloorIndex ==
  (rec.returned > 0 /\ rec.channels = 1) =>
    /\ ~rec.is_recording
    /\ Len(rec.frame) = new_length(Len(rec.audio_data), rec.sample_rate)
    /\ \A k \in 1..Len(rec.frame) :
         /\ ((k - 1) * rec.sample_rate) \div TargetRate < Len(rec.audio_data)
         /\ rec.frame[k] =
              {rec.audio_data[(((k - 1) * rec.sample_rate) \div TargetRate) + 1]}

\* C29: on a stereo device, every output sample of stop_recording is made
\* of samples of one source frame: the right sample of a frame is never
\* averaged with the left sample of the next.
C29_StereoAveragesOneFrame ==
  (rec.returned > 0 /\ rec.channels = 2) =>
    \A k \in 1..Len(rec.frame) :
      \A s, t \in rec.frame[k] : FrameOf(s, 2) = FrameOf(t, 2)

\* C30: stop_recording on a buffer of F frames returns floor(F * 16000 /
\* sample_rate) samples or one more or less, whatever the number of
\* channels.
C30_LengthFollowsFrames ==
  rec.returned > 0 =>
    LET frames == Len(rec.audio_data) \div rec.channels
        expected == (frames * TargetRate) \div rec.sample_rate
    IN  /\ Len(rec.frame) <= expected + 1
        /\ Len(rec.frame) + 1 >= expected


\* C33: get_status is consistent in every reachable state: running implies
\* initialized, the mode is present exactly when initialized (a processor
\* is installed), and initialized never goes back from true to false.
C33_StatusIsConsistent ==
  /\ [](/\ get_voice_status.is_running => get_voice_status.is_initialized
        /\ (get_voice_status.mode_info # "none")
             <=> get_voice_status.is_initialized
        /\ get_voice_status.is_initialized <=> state_processor # None)
  /\ [][state_is_initialized => state_is_initialized']_vars

\* A second initialize has failed in VoiceProcessor::new after a first one
\* succeeded; the status is initialized with a mode and not running.
C33_Witness ==
  /\ init.pc = "idle"
  /\ last = "Failed to initialize voice recognition: Failed to initialize Whisper transcriber"
  /\ get_voice_status.is_initialized
  /\ ~get_voice_status.is_running
  /\ get_voice_status.mode_info = "CPU"

\* C34: an initialize that fails returns an error message, installs no
\* processor and spawns no worker and no monitor thread; the processor
\* installed before the call stays installed, and initialize leaves it
\* stopped: it clears its flag when it begins and no later step of the call
\* sets a flag.
C34_FailedInitializeInstallsNothing ==
  [][/\ init.pc \in {"stopped", "loaded"} /\ init'.pc = "idle"
          => /\ last' # "ok"
             /\ last' \in {validate_voice_config(load_voice_config),
                           "Failed to initialize voice recognition: Failed to initialize audio recorder",
                           "Failed to initialize voice recognition: Failed to initialize Whisper transcriber"}
             /\ UNCHANGED <<state_processor, state_is_initialized, nProcs,
                            transcriber, worker, monitors, nMons, chan>>
     /\ (init.pc = "idle" /\ init'.pc = "stopped" /\ state_processor # None)
          => ~is_running'[state_processor]
     /\ (init' # init /\ init.pc \in {"stopped", "loaded"} /\ init'.pc # "installed")
          => UNCHANGED is_running]_vars

\* A second initialize has failed on the audio device while the processor
\* of the first, which had been running, is installed: it is stopped.
C34_Witness ==
  /\ init.pc = "idle"
  /\ last = "Failed to initialize voice recognition: Failed to initialize audio recorder"
  /\ state_processor = 1 /\ nProcs = 1
  /\ monitors[1].st = "listening"
  /\ ~is_running[1]

\* C36: once a monitor has handled the release of the trigger key, the
\* recorder is not armed, whatever commands ran during the hold.
C36_ReleaseDisarms ==
  [][\A m \in Mons :
       (/\ HandledBy(m)
        /\ GLOBAL_RECORDER # None
        /\ Event(m).type = "release"
        /\ Event(m).key = TARGET_KEY)
         => ~is_recording'[GLOBAL_RECORDER]]_vars

\* C37: when no initialize is in progress (every save_config has returned
\* as well), the configuration of the installed processor, which its
\* monitor and its worker use, is the one the file holds.
C37_LiveConfigIsPersisted ==
  (init.pc = "idle" /\ state_processor # None)
    => config[state_processor] = load_voice_config

\* C31: no session stays armed longer than the configured maximum
\* duration: while a recorder is armed, no more than max_duration has
\* passed since the session started.
C31_SessionEndsAtMaximum ==
  \A p \in Procs :
    (is_recording[p] /\ RECORDING_START_TIME # NoTime)
      => now - RECORDING_START_TIME <= config[p].max_duration

\* C35: no two frames on the queues come from the release of the same hold
\* of the trigger key.
C35_OneFramePerHold ==
  \A f, g \in Queued : f.hold = g.hold => f.id = g.id

\* The key a monitor thread resolves from a hotkey (line 133).
Resolved(hotkey) ==
  IF parse_hotkey(hotkey) = "" THEN "F2" ELSE parse_hotkey(hotkey)

\* This step is the setup of monitor thread m.
SetUp(m) == monitors[m].st = "spawned" /\ monitors'[m].st = "listening"

\* C38 as stated: once every monitor thread that was spawned is listening,
\* the trigger key is the key of the hotkey configured when start() was
\* last called.
C38_KeyOfLatestStart ==
  (nMons > 0 /\ \A m \in Mons : monitors[m].st # "spawned")
    => TARGET_KEY = Resolved(monitors[nMons].hotkey)

\* C38: the trigger key changes only when a monitor thread spawned by
\* start() runs its setup, to the key of the hotkey its processor is
\* configured with at that moment; save_config never changes it, and a key
\* event starts or ends a session only if its key is the trigger key.
C38_KeyChangesOnlyAtSetup ==
  [][/\ TARGET_KEY' # TARGET_KEY
          => \E m \in Mons :
               /\ SetUp(m)
               /\ TARGET_KEY' = Resolved(config[monitors[m].proc].hotkey)
     /\ (\E m \in Mons : SetUp(m))
          => \E m \in Mons :
               /\ SetUp(m)
               /\ TARGET_KEY' = Resolved(config[monitors[m].proc].hotkey)
     /\ \A m \in Mons :
          (HandledBy(m) /\ <<is_recording, RECORDING_START_TIME>>'
                             # <<is_recording, RECORDING_START_TIME>>)
            => Event(m).key = TARGET_KEY]_vars

\* The monitor listens for F2; a configuration with hotkey F3 was saved
\* afterwards, and the press of F2 has just started a session.
C38_Witness ==
  /\ TARGET_KEY = "F2"
  /\ GLOBAL_CONFIG # None /\ GLOBAL_RECORDER # None
  /\ config[GLOBAL_CONFIG].hotkey = "F3"
  /\ held = "F2"
  /\ last = "callback: trigger key"
  /\ is_recording[GLOBAL_RECORDER]

\* C40: a key event for a key other than the trigger key, and an event
\* that is no key event, changes neither the armed flag, the sample buffer,
\* the session start time nor the queue, and the callback goes no further,
\* whether or not a recording is in progress.
C40_OtherKeyChangesNothing ==
  [][\A m \in Mons :
       (HandledBy(m) /\ (Event(m).key # TARGET_KEY \/ Event(m).type = "other"))
         => /\ UNCHANGED <<is_recording, audio_data, RECORDING_START_TIME, chan>>
            /\ cb'[m].pc = "idle"]_vars

\* While the trigger key is held and the recorder is armed, a mouse event
\* has been handled.
C40_Witness ==
  /\ last = "callback: other event"
  /\ GLOBAL_RECORDER # None
  /\ held = TARGET_KEY
  /\ is_recording[GLOBAL_RECORDER]
  /\ RECORDING_START_TIME # NoTime


\* Thread t has requested a lock that a thread holds.
Waits(t) ==
  /\ lk[t].ops # <<>>
  /\ Head(lk[t].ops)[1] \in {"lock", "touch"}
  /\ Holders(Head(lk[t].ops)[2]) # {}

\* C32: no thread is inside a hardware call, an inference, a text
\* injection or a file read or write while it holds a configuration lock.
C32_NoConfigLockAcrossIo ==
  \A t \in Threads :
    (lk[t].ops # <<>> /\ Head(lk[t].ops)[1] = "io")
      => lk[t].held \cap {"state.config", "processor.config"} = {}

\* The worker is inside transcribe with its snapshot taken, and at that
\* moment save_config can lock the configuration of the processor.
C32_Witness ==
  /\ lk["worker"].ops = << <<"io", "inference">>, <<"io", "inject">> >>
  /\ lk["worker"].held = {}
  /\ lk["command1"].held = {"VOICE_STATE"}
  /\ Head(lk["command1"].ops) = <<"touch", "processor.config">>
  /\ ENABLED ThreadTouch("command1")

\* Thread t waits for a lock whose holder waits, and so on for n threads:
\* with n the number of threads, the chain of waiting threads is closed.
RECURSIVE Stuck(_, _)
Stuck(t, n) ==
  /\ Waits(t)
  /\ \/ n = 0
     \/ \A h \in Holders(Head(lk[t].ops)[2]) : Stuck(h, n - 1)

\* C39: no reachable state is a deadlock: no thread waits for a lock at
\* the head of a closed chain of threads that each wait for a lock the
\* next one holds.
C39_NoDeadlock == \A t \in Threads : ~Stuck(t, Cardinality(Threads))

\* Two threads wait at once and neither waits for the other: a command
\* waits for VOICE_STATE, which the other command holds, and a release
\* callback waits for the start time, which the callback of the other
\* monitor thread holds inside stop_recording.
C39_Witness ==
  /\ Waits("command2") /\ "VOICE_STATE" \in lk["command1"].held
  /\ Waits("monitor1") /\ "RECORDING_START_TIME" \in lk["monitor2"].held
  /\ Head(lk["monitor2"].ops)[1] = "io"

====
